---- MODULE Spec2Model ----
(***************************************************************************)
(* A model of the streaming record pipeline of linux-perf-data:            *)
(*   - the round sorter (src/src/sorter.rs),                                *)
(*   - the container iterator PerfRecordIter and the two entry points      *)
(*     parse_file / parse_pipe (src/src/file_reader.rs).                    *)
(* Option<T> is modelled as a sequence of length <= 1: None is <<>> and     *)
(* Some(v) is <<v>>.                                                        *)
(***************************************************************************)
EXTENDS Integers, Sequences, FiniteSets, TLC

VARIABLES
    sorter,     \* the Sorter<K, V> of the unit-level specification
    slog,       \* history of the calls made on `sorter`
    input,      \* the bytes handed to parse_file / parse_pipe, as records
    phase,      \* "start" before the parse call, then "iter", "failed"
    perf_file,  \* PerfFile: the attributes and feature sections parsed
    iter,       \* PerfRecordIter
    ret,        \* the result of the last call
    returned    \* the records next_record has returned, in order

vars == <<sorter, slog, input, phase, perf_file, iter, ret, returned>>
svars == <<sorter, slog>>
ivars == <<input, phase, perf_file, iter, ret, returned>>

None == <<>>
Some(v) == <<v>>

(***************************************************************************)
(* Bounds of the model.                                                     *)
(***************************************************************************)
MaxKey == 2         \* unit-level sorter keys are 0..MaxKey
MaxInserts == 3     \* insert_unordered calls per unit-level run
MaxRounds == 3      \* finish_round calls per unit-level run

(***************************************************************************)
(* Sorter<K, V>  (src/src/sorter.rs).  K is modelled by the integers; an    *)
(* entry of `incoming` is the pair <<key, value>>.                          *)
(***************************************************************************)

\* Sorter::default / Sorter::new.  Default::default() of the key is 0.
SorterNew ==
    [ outgoing |-> <<>>,
      incoming |-> <<>>,
      prev_max |-> 0,
      cur_max |-> 0,
      incoming_lte_prev_max_count |-> 0,
      panicked |-> FALSE ]

has_more(s) == s.outgoing /= <<>>

\* get_next: pop_front of outgoing.  The result is <<value option, sorter>>.
get_next(s) ==
    IF s.outgoing = <<>>
    THEN <<None, s>>
    ELSE <<Some(Head(s.outgoing)), [s EXCEPT !.outgoing = Tail(s.outgoing)]>>

\* An insert that does not count a key that equals prev_max.
insert_unordered_below_prev_max(s, key, value) ==
    [s EXCEPT
        !.incoming_lte_prev_max_count = IF key < s.prev_max THEN @ + 1 ELSE @,
        !.cur_max = IF key > s.prev_max /\ key > s.cur_max THEN key ELSE @,
        !.incoming = Append(@, <<key, value>>)]

insert_unordered(s, key, value) ==
    [s EXCEPT
        !.incoming_lte_prev_max_count = IF key <= s.prev_max THEN @ + 1 ELSE @,
        !.cur_max = IF key > s.prev_max /\ key > s.cur_max THEN key ELSE @,
        !.incoming = Append(@, <<key, value>>)]

\* The orders in which sort_unstable_by_key may leave the entries of the set S:
\* ascending by key, entries of equal key in any order.
RECURSIVE SortedSeqs(_)
SortedSeqs(S) ==
    IF S = {} THEN {<<>>}
    ELSE UNION { { <<e>> \o t : t \in SortedSeqs(S \ {e}) } :
                 e \in { x \in S : \A y \in S : x[1] <= y[1] } }

Range(q) == { q[i] : i \in 1..Len(q) }

RECURSIVE SeqMap2(_)
\* the values of a sequence of <<key, value>> entries
SeqMap2(q) == IF q = <<>> THEN <<>> ELSE <<Head(q)[2]>> \o SeqMap2(Tail(q))

\* the entries of q at the positions outside I, in q's order
RECURSIVE Without(_, _, _)
Without(q, I, i) ==
    IF i > Len(q) THEN <<>>
    ELSE (IF i \in I THEN <<>> ELSE <<q[i]>>) \o Without(q, I, i + 1)

\* select_nth_unstable_by_key(n - 1): the sets of n positions of `incoming`
\* that may end up in front, i.e. no position outside has a smaller key.
Smallest(q, n) ==
    { I \in SUBSET (1..Len(q)) :
        /\ Cardinality(I) = n
        /\ \A i \in I : \A j \in (1..Len(q)) \ I : q[i][1] <= q[j][1] }

\* finish_round: every sorter the call may leave (the sorts are unstable, so
\* entries of equal key come out in any order).  The order of what stays in
\* `incoming` is never observed (it is sorted again before it leaves), so it
\* is kept as it was.  select_nth_unstable_by_key panics when n - 1 is not
\* an index of `incoming`.
finish_round_outcomes(s) ==
    LET n == s.incoming_lte_prev_max_count IN
    IF n = 0
    THEN { [s EXCEPT !.prev_max = s.cur_max,
                     !.incoming_lte_prev_max_count = Len(s.incoming)] }
    ELSE IF n > Len(s.incoming)
    THEN { [s EXCEPT !.panicked = TRUE] }
    ELSE { [s EXCEPT
              !.outgoing = @ \o SeqMap2(new_outgoing),
              !.incoming = Without(s.incoming, I, 1),
              !.prev_max = s.cur_max,
              !.incoming_lte_prev_max_count = Len(s.incoming) - n ] :
           <<I, new_outgoing>> \in
              UNION { {I} \X SortedSeqs({ s.incoming[i] : i \in I }) :
                      I \in Smallest(s.incoming, n) } }

\* A finish that releases only what finish_round would release.
finish_only_lte_prev_max(s) == finish_round_outcomes(s)

\* finish: sort everything that is left and move it to outgoing.
finish_outcomes(s) ==
    { [s EXCEPT !.outgoing = @ \o SeqMap2(sorted),
                !.incoming = <<>>,
                !.prev_max = s.cur_max] :
      sorted \in SortedSeqs(Range(s.incoming)) }

(***************************************************************************)
(* The unit-level specification of the sorter: any interleaving of          *)
(* insert_unordered, finish_round, get_next, then finish and a drain.       *)
(* A value is the number of the insert that brought it, so slog.keys[v] is  *)
(* the key of value v.                                                      *)
(***************************************************************************)
SlogNew ==
    [ keys |-> <<>>,          \* key of every insert so far, in call order
      round_of |-> <<>>,      \* the round (1, 2, ...) of every insert
      rounds |-> 0,           \* finish_round calls so far
      finished |-> FALSE,     \* finish() was called
      returned |-> <<>>,      \* the values get_next returned, in order
      last |-> "new" ]        \* the last call

InitSorter ==
    /\ sorter = SorterNew
    /\ slog = SlogNew
    /\ input = None /\ phase = "unused" /\ perf_file = None
    /\ iter = None /\ ret = None /\ returned = <<>>

InsertUnordered(k) ==
    /\ UNCHANGED ivars
    /\ ~slog.finished
    /\ ~sorter.panicked
    /\ Len(slog.keys) < MaxInserts
    /\ sorter' = insert_unordered(sorter, k, Len(slog.keys) + 1)
    /\ slog' = [slog EXCEPT !.keys = Append(@, k),
                            !.round_of = Append(@, slog.rounds + 1),
                            !.last = "insert_unordered"]

FinishRound ==
    /\ UNCHANGED ivars
    /\ ~slog.finished
    /\ ~sorter.panicked
    /\ slog.rounds < MaxRounds
    /\ sorter' \in finish_round_outcomes(sorter)
    /\ slog' = [slog EXCEPT !.rounds = @ + 1, !.last = "finish_round"]

Finish ==
    /\ UNCHANGED ivars
    /\ ~slog.finished
    /\ ~sorter.panicked
    /\ sorter' \in finish_outcomes(sorter)
    /\ slog' = [slog EXCEPT !.finished = TRUE, !.last = "finish"]

GetNext ==
    /\ UNCHANGED ivars
    /\ ~sorter.panicked
    /\ slog.last /= "get_next_none"
    /\ LET r == get_next(sorter) IN
        /\ sorter' = r[2]
        /\ slog' = [slog EXCEPT
                      !.returned = IF r[1] = None THEN @ ELSE Append(@, r[1][1]),
                      !.last = IF r[1] = None THEN "get_next_none" ELSE "get_next"]

NextSorter ==
    \/ \E k \in 0..MaxKey : InsertUnordered(k)
    \/ FinishRound
    \/ Finish
    \/ GetNext

SpecSorter == InitSorter /\ [][NextSorter]_vars

\* The keys of the values returned so far.
ReturnedKeys == [i \in 1..Len(slog.returned) |-> slog.keys[slog.returned[i]]]

NonDecreasing(q) == \A i \in 1..Len(q) : \A j \in i..Len(q) : q[i] <= q[j]

\* The contract of the sorter's documentation: the lowest key of round N + 2 is
\* greater than or equal to the highest key of round N.
SorterContract ==
    \A i \in 1..Len(slog.keys) : \A j \in 1..Len(slog.keys) :
        slog.round_of[j] = slog.round_of[i] + 2 => slog.keys[j] >= slog.keys[i]

\* C2: in a run that respects the contract and was ended by finish(), the
\* values get_next has returned are in non-decreasing key order.
C2_SorterOutputMonotone ==
    (slog.finished /\ SorterContract) => NonDecreasing(ReturnedKeys)

\* C3: no call panics, and once finish() was called and get_next has drained
\* the sorter, the returned values are the inserted values, each exactly once.
C3_Permutation ==
    /\ ~sorter.panicked
    /\ (slog.finished /\ sorter.outgoing = <<>>) =>
          /\ Len(slog.returned) = Len(slog.keys)
          /\ Range(slog.returned) = 1..Len(slog.keys)

\* C3's case: a full run of MaxInserts inserts and two finished rounds, drained
\* after finish(), whose output order differs from the insertion order.
C3_Witness ==
    /\ slog.finished
    /\ slog.last = "get_next_none"
    /\ slog.rounds >= 2
    /\ Len(slog.keys) = MaxInserts
    /\ Len(slog.returned) = MaxInserts
    /\ slog.returned /= <<1, 2, 3>>


(***************************************************************************)
(* The perf.data record stream.  A record of the stream is                  *)
(*   [type, size, ts, id, data]                                             *)
(* where type and size are the fields of its PerfEventHeader, ts is what    *)
(* get_record_timestamp reads from its body, id is what get_record_id /     *)
(* get_record_identifier reads from its body (both functions belong to the  *)
(* linux_perf_event_reader crate), and data is the parsed body of a         *)
(* HEADER_ATTR (an attribute) or HEADER_FEATURE (a feature number) record,  *)
(* or the plaintext of a COMPRESSED / COMPRESSED2 record.                   *)
(***************************************************************************)
MaxRecs == 5        \* records of a stream after the pipe-mode metadata
MaxRoundRecs == 4   \* records of a stream whose rounds are followed
MaxTs == 2          \* timestamps are 1..MaxTs
MaxEofRecs == 2     \* complete records of an input that ends badly
MaxZRecs == 2       \* records of a stream that is compressed
MaxAttrs == 2       \* attributes of an input with event ids
MaxAttrRecs == 1    \* records of an input with event ids
MaxId == 1          \* event ids in id lists are 1..MaxId
MaxParseAttrs == 3  \* attributes of an input of the id-scheme choice
MaxMetaRecs == 4    \* records of a pipe stream with metadata records anywhere

\* PerfEventHeader::STRUCT_SIZE
STRUCT_SIZE == 8

\* RecordType::is_builtin_type / is_user_type: the types below
\* PERF_RECORD_USER_TYPE_START are the kernel's.
BuiltinTypes == {"SAMPLE"}
is_builtin_type(record_type) == record_type \in BuiltinTypes
is_user_type(record_type) == record_type \notin BuiltinTypes

Rec(type, size, ts, id, data) ==
    [type |-> type, size |-> size, ts |-> ts, id |-> id, data |-> data]

\* An AttributeDescription: its event ids, and of its attr the id layout
\* (RecordParseInfo::id_parse_info), the IDENTIFIER sample-format bit and the
\* SAMPLE_ID_ALL flag.
Attr(event_ids, id_parse_info, identifier, sample_id_all) ==
    [event_ids |-> event_ids, id_parse_info |-> id_parse_info,
     identifier |-> identifier, sample_id_all |-> sample_id_all]

DefaultAttr == Attr({}, "A", TRUE, TRUE)

HeaderAttrRec(attr) == Rec("HEADER_ATTR", 2 * STRUCT_SIZE, None, None, Some(attr))
HeaderFeatureRec(f) == Rec("HEADER_FEATURE", 2 * STRUCT_SIZE, None, None, Some(f))

\* The records a stream is drawn from: samples with and without a timestamp,
\* a user record, and FINISHED_ROUND (a bare header, as perf writes it).
SampleRecs ==
    { Rec("SAMPLE", 2 * STRUCT_SIZE, ts, None, None) :
        ts \in {None} \cup { Some(n) : n \in 1..MaxTs } }
BodyRecs ==
    SampleRecs \cup
    { Rec("THREAD_MAP", 2 * STRUCT_SIZE, None, None, None),
      Rec("FINISHED_ROUND", STRUCT_SIZE, None, None, None) }

SeqsUpTo(S, n) == UNION { [1..k -> S] : k \in 0..n }

RECURSIVE SumSizes(_)
SumSizes(q) == IF q = <<>> THEN 0 ELSE Head(q).size + SumSizes(Tail(q))

(***************************************************************************)
(* The reader (R: Read) is [stream, tail, pos]: the records of the input,   *)
(* how the input ends after them, and the position of the record the next   *)
(* read starts at.  The input ends, after the records of stream,            *)
(*   "none"     at a record boundary,                                       *)
(*   "hdr"      inside the 8-byte header of one more record,                *)
(*   "body"     inside the body of one more record,                         *)
(*   "badsize"  with one more record whose header declares a size below 8.  *)
(***************************************************************************)
TailRecord(tail) ==
    IF tail = "badsize"
    THEN Rec("SAMPLE", STRUCT_SIZE \div 2, None, None, None)
    ELSE Rec("SAMPLE", 2 * STRUCT_SIZE, Some(1), None, None)

\* PerfEventHeader::parse on the reader: the header, or None for
\* UnexpectedEof (no byte left, or fewer than eight).
ReadHeader(reader) ==
    IF reader.pos <= Len(reader.stream) THEN Some(reader.stream[reader.pos])
    ELSE IF reader.pos = Len(reader.stream) + 1 /\ reader.tail \in {"body", "badsize"}
    THEN Some(TailRecord(reader.tail))
    ELSE None

\* reader.read_exact(&mut buffer) for the body of the record at pos succeeds
BodyAvailable(reader) == reader.pos <= Len(reader.stream)

\* header.data_section.size of a file-mode input
DataSectionSize(inp) ==
    SumSizes(inp.stream) + (IF inp.tail = "badsize" THEN STRUCT_SIZE ELSE 0)

(***************************************************************************)
(* RecordSortKey { timestamp: Option<u64>, offset: u64 } with its derived   *)
(* Ord (timestamp first, None below every Some, then offset), as the        *)
(* integer with the same order: OffsetSpan is above every offset of the     *)
(* inputs of this model.  The Default key (None, 0) is 0.                   *)
(***************************************************************************)
OffsetSpan == 2 * STRUCT_SIZE * (MaxRecs + MaxEofRecs + MaxZRecs + 8)

\* A key order in which a record without timestamp sorts after the
\* timestamped ones.
RecordSortKey_none_last(timestamp, offset) ==
    (IF timestamp = None THEN MaxTs + 2 ELSE timestamp[1] + 1) * OffsetSpan + offset

RecordSortKey(timestamp, offset) ==
    (IF timestamp = None THEN 0 ELSE timestamp[1] + 1) * OffsetSpan + offset

\* The sort keys of one input are pairwise distinct (the offsets are), so
\* the unstable sorts of finish_round and finish have one outcome each.

\* A finish_round that takes none of the values it keeps for releasable.
finish_round_counts_nothing(s) ==
    [(CHOOSE r \in finish_round_outcomes(s) : TRUE) EXCEPT
        !.incoming_lte_prev_max_count = 0]

finish_round(s) == CHOOSE r \in finish_round_outcomes(s) : TRUE

\* A finish that leaves the incoming values where they are.
finish_keeps_incoming(s) == [s EXCEPT !.prev_max = s.cur_max]

finish(s) == CHOOSE r \in finish_outcomes(s) : TRUE

(***************************************************************************)
(* parse_file_impl / parse_pipe_impl: the attribute resolver.               *)
(***************************************************************************)

\* event_id_to_attr_index: the ids of attributes[i..], inserted in order into
\* the HashMap m (a later insert of the same id replaces the earlier one).
\* attr_index counts from 0.
\* An event_id_to_attr_index in which the first attribute that lists an id
\* keeps it (entry().or_insert instead of insert).
RECURSIVE InsertEventIds_first_wins(_, _, _)
InsertEventIds_first_wins(attributes, i, m) ==
    IF i > Len(attributes) THEN m
    ELSE InsertEventIds_first_wins(attributes, i + 1,
            [id \in DOMAIN m \cup attributes[i].event_ids |->
                IF id \in DOMAIN m THEN m[id] ELSE i - 1])

RECURSIVE InsertEventIds(_, _, _)
InsertEventIds(attributes, i, m) ==
    IF i > Len(attributes) THEN m
    ELSE InsertEventIds(attributes, i + 1,
            [id \in DOMAIN m \cup attributes[i].event_ids |->
                IF id \in attributes[i].event_ids THEN i - 1 ELSE m[id]])

\* The loop over the attributes in the PerAttribute branch, from the
\* attribute at position i on: the first error, or None.
\* The same loop with the two tests of its body in the other order.
RECURSIVE CheckAttrs_sample_id_all_first(_, _)
CheckAttrs_sample_id_all_first(attributes, i) ==
    IF i > Len(attributes) THEN None
    ELSE IF attributes[i].sample_id_all /= attributes[1].sample_id_all
    THEN Some([kind |-> "InconsistentSampleIdAllWithMultiEvent", index |-> i - 1])
    ELSE IF ~attributes[i].identifier
    THEN Some([kind |-> "NoIdentifierDespiteMultiEvent", index |-> i - 1])
    ELSE CheckAttrs_sample_id_all_first(attributes, i + 1)

RECURSIVE CheckAttrs(_, _)
CheckAttrs(attributes, i) ==
    IF i > Len(attributes) THEN None
    ELSE IF ~attributes[i].identifier
    THEN Some([kind |-> "NoIdentifierDespiteMultiEvent", index |-> i - 1])
    ELSE IF attributes[i].sample_id_all /= attributes[1].sample_id_all
    THEN Some([kind |-> "InconsistentSampleIdAllWithMultiEvent", index |-> i - 1])
    ELSE CheckAttrs(attributes, i + 1)

\* The choice of IdParseInfos for a non-empty attribute list:
\* [err, id_parse_infos].
ChooseIdParseInfos(attributes) ==
    IF Len(attributes) = 1
    THEN [err |-> None, id_parse_infos |-> [kind |-> "OnlyOneEvent"]]
    ELSE IF \A i \in 2..Len(attributes) :
                attributes[i].id_parse_info = attributes[1].id_parse_info
    THEN [err |-> None,
          id_parse_infos |-> [kind |-> "Same",
                              id_parse_info |-> attributes[1].id_parse_info]]
    ELSE IF CheckAttrs(attributes, 1) /= None
    THEN [err |-> CheckAttrs(attributes, 1), id_parse_infos |-> None]
    ELSE [err |-> None,
          id_parse_infos |-> [kind |-> "PerAttribute",
                              sample_id_all |-> attributes[1].sample_id_all]]

\* PerfRecordIter as both entry points construct it.
NewIter(reader, attributes, id_parse_infos, record_data_len, pending) ==
    [ reader |-> reader,
      read_offset |-> 0,
      record_data_len |-> record_data_len,
      current_event_body |-> None,
      id_parse_infos |-> id_parse_infos,
      parse_infos |-> [i \in 1..Len(attributes) |-> attributes[i].id_parse_info],
      event_id_to_attr_index |-> InsertEventIds(attributes, 1, << >>),
      sorter |-> SorterNew,
      buffers_for_recycling |-> 0,
      pending_first_record |-> pending,
      allocated |-> IF pending = None THEN 0 ELSE 1,
      max_in_sorter |-> 0,
      offsets |-> <<>> ]

\* The result of a parse call: Err(err), or Ok of the PerfFile and iterator.
ParseErr(kind) ==
    [err |-> Some([kind |-> kind]), perf_file |-> None, record_iter |-> None]

\* The part of parse_file_impl / parse_pipe_impl from the attribute list on.
\* file is the PerfFile but for its attributes.
FinishParse(reader, attributes, file, record_data_len, pending) ==
    IF attributes = <<>> THEN ParseErr("NoAttributes")
    ELSE LET c == ChooseIdParseInfos(attributes) IN
         IF c.err /= None
         THEN [err |-> c.err, perf_file |-> None, record_iter |-> None]
         ELSE [err |-> None,
               perf_file |-> [endian |-> file.endian,
                              features |-> file.features,
                              feature_sections |-> file.feature_sections,
                              attributes |-> attributes],
               record_iter |-> NewIter(reader, attributes, c.id_parse_infos,
                                       record_data_len, pending)]

(***************************************************************************)
(* The header.  An input is                                                 *)
(*   magic         the first eight bytes,                                   *)
(*   header_bytes  "full" when the bytes after the magic hold the rest of   *)
(*                 the header, "short" when the input ends before,          *)
(* and, of a file, what its header and sections hold:                       *)
(*   features      the feature bitset [u64; 4], each word as the set of its *)
(*                 set bits,                                                *)
(*   nr_sections   the section descriptors that follow the data section,    *)
(*   event_desc    the attributes the EVENT_DESC section describes,         *)
(*   event_types   None when event_types_section.size is 0, else the        *)
(*                 attributes (with ids) of the event_types section,        *)
(*   meta_info     of the SIMPLEPERF_META_INFO section: "ok" when it has a  *)
(*                 well-formed event_type_info, else "missing" or           *)
(*                 "malformed",                                             *)
(*   attrs         the attributes of the attr section (with the ids the     *)
(*                 Simpleperf layout packs into it).                        *)
(***************************************************************************)
HEADER_EVENT_DESC == 12
HEADER_SIMPLEPERF_META_INFO == 128

\* The endianness the magic selects, None for any other magic.
MagicEndian(magic) ==
    IF magic = "PERFILE2" THEN Some("LittleEndian")
    ELSE IF magic = "2ELIFREP" THEN Some("BigEndian")
    ELSE None

FeatureSetEmpty == <<{}, {}, {}, {}>>

\* FeatureSet::has_feature
has_feature(set, feature) ==
    IF feature >= 256 THEN FALSE
    ELSE (feature % 64) \in set[(feature \div 64) + 1]

RECURSIVE Ascending(_)
Ascending(S) ==
    IF S = {} THEN <<>>
    ELSE LET m == CHOOSE x \in S : \A y \in S : x <= y
         IN <<m>> \o Ascending(S \ {m})

\* FeatureSet::iter: the features of the set, from low to high.
FeatureSetIter(set) == Ascending({ f \in 0..255 : has_feature(set, f) })

\* The two loops over header.features.iter(): the k-th descriptor after the
\* data section is read for the k-th feature of the set; the LinearMap maps
\* the feature to the data of that section, here the number k.
ReadFeatureSections(inp) ==
    LET fs == FeatureSetIter(inp.features) IN
    IF inp.nr_sections < Len(fs)
    THEN [err |-> Some("IoError"), feature_sections |-> << >>]
    ELSE [err |-> None,
          feature_sections |->
              [f \in Range(fs) |-> CHOOSE k \in 1..Len(fs) : fs[k] = f]]

\* An attr section read by parse_attr_section: no event ids.
WithoutIds(attrs) == [i \in 1..Len(attrs) |-> [attrs[i] EXCEPT !.event_ids = {}]]

\* A decoding that prefers the event_types section to EVENT_DESC.
DecodeAttributes_event_types_first(inp, feature_sections) ==
    IF inp.event_types /= None
    THEN [err |-> None, attributes |-> inp.event_types[1]]
    ELSE IF HEADER_EVENT_DESC \in DOMAIN feature_sections
    THEN [err |-> None, attributes |-> inp.event_desc]
    ELSE IF HEADER_SIMPLEPERF_META_INFO \in DOMAIN feature_sections
    THEN IF inp.meta_info = "ok"
         THEN [err |-> None, attributes |-> inp.attrs]
         ELSE [err |-> Some("NoEventTypesInSimpleperfMetaInfo"), attributes |-> <<>>]
    ELSE [err |-> None, attributes |-> WithoutIds(inp.attrs)]

\* let attributes = if .. else if .. else if .. else ..  of parse_file_impl:
\* [err, attributes].
DecodeAttributes(inp, feature_sections) ==
    IF HEADER_EVENT_DESC \in DOMAIN feature_sections
    THEN [err |-> None, attributes |-> inp.event_desc]
    ELSE IF inp.event_types /= None
    THEN [err |-> None, attributes |-> inp.event_types[1]]
    ELSE IF HEADER_SIMPLEPERF_META_INFO \in DOMAIN feature_sections
    THEN IF inp.meta_info = "ok"
         THEN [err |-> None, attributes |-> inp.attrs]
         ELSE [err |-> Some("NoEventTypesInSimpleperfMetaInfo"), attributes |-> <<>>]
    ELSE [err |-> None, attributes |-> WithoutIds(inp.attrs)]

\* PerfFileReader::parse_file, with parse_file_impl.
parse_file(inp) ==
    IF inp.header_bytes = "short" THEN ParseErr("IoError")
    ELSE IF MagicEndian(inp.magic) = None THEN ParseErr("UnrecognizedMagicValue")
    ELSE
      LET s == ReadFeatureSections(inp) IN
      IF s.err /= None THEN ParseErr(s.err[1])
      ELSE
        LET d == DecodeAttributes(inp, s.feature_sections) IN
        IF d.err /= None THEN ParseErr(d.err[1])
        ELSE FinishParse([stream |-> inp.stream, tail |-> inp.tail, pos |-> 1],
                         d.attributes,
                         [endian |-> MagicEndian(inp.magic)[1],
                          features |-> inp.features,
                          feature_sections |-> s.feature_sections],
                         Some(DataSectionSize(inp)), None)

\* The loop of parse_pipe_impl that reads the metadata records:
\* [err, reader, attributes, feature_sections, pending].
RECURSIVE PipeMetadata(_, _, _)
PipeMetadata(reader, attributes, feature_sections) ==
    LET h == ReadHeader(reader)
        next == [reader EXCEPT !.pos = @ + 1]
        out(err, rd, pending) ==
            [err |-> err, reader |-> rd, attributes |-> attributes,
             feature_sections |-> feature_sections, pending |-> pending]
    IN
    IF h = None THEN out(None, reader, None)
    ELSE IF h[1].size < STRUCT_SIZE THEN out(Some("InvalidPerfEventSize"), reader, None)
    ELSE IF ~BodyAvailable(reader) THEN out(Some("IoError"), next, None)
    ELSE IF h[1].type = "HEADER_ATTR"
    THEN PipeMetadata(next, Append(attributes, h[1].data[1]), feature_sections)
    ELSE IF h[1].type = "HEADER_FEATURE"
    THEN PipeMetadata(next, attributes,
            [f \in DOMAIN feature_sections \cup {h[1].data[1]} |->
                IF f = h[1].data[1] THEN reader.pos ELSE feature_sections[f]])
    ELSE out(None, next, Some([header |-> h[1], buffer |-> reader.pos]))

\* An inference that sets the bit of every key in the first word.
InferFeatures_first_word(keys) ==
    [c \in 1..4 |-> IF c = 1 THEN { f % 64 : f \in { k \in keys : k < 256 } } ELSE {}]

\* "Infer features from the feature_sections we collected": the bitset with
\* the bit of every key below 256.
InferFeatures(keys) ==
    [c \in 1..4 |-> { f % 64 : f \in { k \in keys : k < 256 /\ k \div 64 = c - 1 } }]

\* PerfFileReader::parse_pipe, with parse_pipe_impl.  feature_sections maps
\* a feature to the data of its HEADER_FEATURE record, here the position of
\* that record.
parse_pipe(inp) ==
    IF inp.header_bytes = "short" THEN ParseErr("IoError")
    ELSE IF MagicEndian(inp.magic) = None THEN ParseErr("UnrecognizedMagicValue")
    ELSE
      LET m == PipeMetadata([stream |-> inp.stream, tail |-> inp.tail, pos |-> 1],
                            <<>>, << >>)
      IN IF m.err /= None THEN ParseErr(m.err[1])
         ELSE FinishParse(m.reader, m.attributes,
                          [endian |-> MagicEndian(inp.magic)[1],
                           features |-> InferFeatures(DOMAIN m.feature_sections),
                           feature_sections |-> m.feature_sections],
                          None, m.pending)

(***************************************************************************)
(* PerfRecordIter.  A PendingRecord is [record_type, buffer, attr_index];   *)
(* its buffer holds the body of one record of the stream and is modelled    *)
(* by the position of that record in the stream.  buffers_for_recycling is  *)
(* the length of that queue.  Two fields record history: allocated counts   *)
(* the body buffers created so far (unwrap_or_default on an empty queue,    *)
(* and the buffer of the pending first record), max_in_sorter is the        *)
(* largest number of records the sorter has held at one time, offsets are   *)
(* the offsets process_record was called with, in call order.               *)
(***************************************************************************)

\* The attr_index process_record gives a builtin-type record.
AttrIndexOf(it, rec) ==
    IF it.id_parse_infos.kind = "OnlyOneEvent" THEN 0
    ELSE IF rec.id /= None /\ rec.id[1] \in DOMAIN it.event_id_to_attr_index
    THEN it.event_id_to_attr_index[rec.id[1]]
    ELSE 0

\* process_record(header, buffer, offset): insert the record into the sorter.
process_record(it, header, buffer, offset) ==
    LET builtin == is_builtin_type(header.type)
        attr_index == IF builtin THEN Some(AttrIndexOf(it, header)) ELSE None
        timestamp == IF builtin THEN header.ts ELSE None
        pending_record == [record_type |-> header.type,
                           buffer |-> buffer,
                           attr_index |-> attr_index]
    IN [it EXCEPT
          !.sorter = insert_unordered(@, RecordSortKey(timestamp, offset), pending_record),
          !.max_in_sorter =
              LET held == Len(it.sorter.incoming) + Len(it.sorter.outgoing) + 1
              IN IF held > @ THEN held ELSE @,
          !.offsets = Append(@, offset)]

\* The while loop of read_next_round_impl and the finish() that follows it:
\* [it, err].
RECURSIVE ReadLoop(_)
ReadLoop(it) ==
    LET done(x) == [it |-> [x EXCEPT !.sorter = finish(@)], err |-> None]
        fail(x, e) == [it |-> x, err |-> Some([kind |-> e])]
    IN
    IF it.record_data_len /= None /\ ~(it.read_offset < it.record_data_len[1])
    THEN done(it)
    ELSE
      LET offset == it.read_offset
          h == ReadHeader(it.reader)
      IN
      IF h = None
      THEN IF it.record_data_len = None THEN done(it) ELSE fail(it, "IoError")
      ELSE IF h[1].size < STRUCT_SIZE
      THEN fail(it, "InvalidPerfEventSize")
      ELSE
        LET header == h[1]
            it1 == [it EXCEPT !.read_offset = @ + header.size]
        IN
        IF header.type = "FINISHED_ROUND"
        THEN LET it2 == [it1 EXCEPT !.sorter = finish_round(@),
                                    !.reader.pos = @ + 1]
             IN IF has_more(it2.sorter)
                THEN [it |-> it2, err |-> None]
                ELSE ReadLoop(it2)
        ELSE
          LET it2 == [it1 EXCEPT
                        !.buffers_for_recycling = IF @ > 0 THEN @ - 1 ELSE 0,
                        !.allocated = IF it.buffers_for_recycling > 0 THEN @ ELSE @ + 1,
                        !.reader.pos = @ + 1]
          IN IF ~BodyAvailable(it.reader)
             THEN IF it.record_data_len = None
                  THEN done(it2)
                  ELSE fail(it2, "PerfEventData")
             ELSE ReadLoop(process_record(it2, header, it.reader.pos, offset))

\* A round that leaves read_offset where it is after the pending first
\* record.
read_next_round_impl_pending_uncounted(it) ==
    IF it.pending_first_record /= None
    THEN LET p == it.pending_first_record[1]
         IN ReadLoop(process_record([it EXCEPT !.pending_first_record = None],
                                    p.header, p.buffer, it.read_offset))
    ELSE ReadLoop(it)

\* read_next_round_impl: the pending first record of pipe mode, then the loop.
read_next_round_impl(it) ==
    IF it.pending_first_record /= None
    THEN LET p == it.pending_first_record[1]
             it1 == process_record([it EXCEPT !.pending_first_record = None],
                                   p.header, p.buffer, it.read_offset)
         IN ReadLoop([it1 EXCEPT !.read_offset = @ + p.header.size])
    ELSE ReadLoop(it)

\* A conversion that recycles a second buffer with the previous body.
convert_pending_record_recycles_twice(it, pending_record) ==
    << [kind |-> IF is_user_type(pending_record.record_type)
                 THEN "UserRecord" ELSE "EventRecord",
        record_type |-> pending_record.record_type,
        attr_index |-> IF is_user_type(pending_record.record_type)
                       THEN None ELSE pending_record.attr_index,
        data |-> pending_record.buffer],
       [it EXCEPT !.current_event_body = Some(pending_record.buffer),
                  !.buffers_for_recycling = @ + 2] >>

\* convert_pending_record: <<the PerfFileRecord, the iterator>>.
convert_pending_record(it, pending_record) ==
    << IF is_user_type(pending_record.record_type)
       THEN [kind |-> "UserRecord",
             record_type |-> pending_record.record_type,
             attr_index |-> None,
             data |-> pending_record.buffer]
       ELSE [kind |-> "EventRecord",
             record_type |-> pending_record.record_type,
             attr_index |-> pending_record.attr_index,
             data |-> pending_record.buffer],
       [it EXCEPT !.current_event_body = Some(pending_record.buffer),
                  !.buffers_for_recycling = @ + 1] >>

\* PerfRecordIter::next_record: [it, err, value], i.e. Err(err) or Ok(value).
next_record(it) ==
    LET r == IF has_more(it.sorter)
             THEN [it |-> it, err |-> None]
             ELSE read_next_round_impl(it)
    IN IF r.err /= None
       THEN [it |-> r.it, err |-> r.err, value |-> None]
       ELSE LET g == get_next(r.it.sorter)
                it1 == [r.it EXCEPT !.sorter = g[2]]
            IN IF g[1] = None
               THEN [it |-> it1, err |-> None, value |-> None]
               ELSE LET cv == convert_pending_record(it1, g[1][1]) IN
                    [it |-> cv[2], err |-> None, value |-> Some(cv[1])]

(***************************************************************************)
(* The calls.                                                               *)
(***************************************************************************)
Parsed(r) ==
    /\ ret' = [call |-> "parse", err |-> r.err, value |-> None]
    /\ phase' = IF r.err = None THEN "iter" ELSE "failed"
    /\ perf_file' = r.perf_file
    /\ iter' = r.record_iter
    /\ UNCHANGED <<input, returned, svars>>

ParseFile ==
    /\ phase = "start"
    /\ input.mode = "file"
    /\ Parsed(parse_file(input))

ParsePipe ==
    /\ phase = "start"
    /\ input.mode = "pipe"
    /\ Parsed(parse_pipe(input))

\* One next_record call.  A caller stops at the first error.
NextRecord ==
    /\ phase = "iter"
    /\ LET r == next_record(iter) IN
        /\ ret' = [call |-> "next_record", err |-> r.err, value |-> r.value]
        /\ phase' = IF r.err = None THEN "iter" ELSE "failed"
        /\ iter' = r.it
        /\ returned' = IF r.value = None THEN returned
                       ELSE Append(returned, r.value[1])
    /\ UNCHANGED <<input, perf_file, svars>>

Next == ParseFile \/ ParsePipe \/ NextRecord

\* An input with a little-endian header and nothing else.
EmptyInput(mode) ==
    [mode |-> mode, magic |-> "PERFILE2", header_bytes |-> "full",
     features |-> FeatureSetEmpty, nr_sections |-> 0, event_desc |-> <<>>,
     event_types |-> None, meta_info |-> "missing", attrs |-> <<>>,
     stream |-> <<>>, tail |-> "none", plain |-> None]

\* A file without features whose event_types section holds attrs and whose
\* data section holds the records of s; a pipe stream that opens with one
\* HEADER_ATTR record per attribute of attrs and goes on with the records
\* of s.
FileInput(attrs, s, tail) ==
    [EmptyInput("file") EXCEPT
        !.event_types = Some(attrs), !.stream = s, !.tail = tail]
PipeInput(attrs, s, tail) ==
    [EmptyInput("pipe") EXCEPT
        !.stream = [i \in 1..Len(attrs) |-> HeaderAttrRec(attrs[i])] \o s,
        !.tail = tail]
Modes == {"file", "pipe"}
Input(mode, attrs, s, tail) ==
    IF mode = "file" THEN FileInput(attrs, s, tail) ELSE PipeInput(attrs, s, tail)

\* The inputs of the main specification: one attribute, complete records.
FileInputs ==
    { FileInput(<<DefaultAttr>>, s, "none") : s \in SeqsUpTo(BodyRecs, MaxRecs) }
PipeInputs ==
    { PipeInput(<<DefaultAttr>>, s, "none") : s \in SeqsUpTo(BodyRecs, MaxRecs) }

InitIter(inputs) ==
    /\ input \in inputs
    /\ phase = "start"
    /\ perf_file = None
    /\ iter = None
    /\ ret = [call |-> "none", err |-> None, value |-> None]
    /\ returned = <<>>
    /\ sorter = None
    /\ slog = None

Init == InitIter(FileInputs \cup PipeInputs)

Spec == Init /\ [][Next]_vars

\* The same streams, one record shorter: the inputs under which the rounds
\* of the iteration are followed state by state.
RoundInputs ==
    { Input(mode, <<DefaultAttr>>, s, "none") :
        mode \in Modes, s \in SeqsUpTo(BodyRecs, MaxRoundRecs) }

InitRounds == InitIter(RoundInputs)

SpecRounds == InitRounds /\ [][Next]_vars

\* Inputs that end inside a record or with a record of invalid size.
EofInputs ==
    { PipeInput(<<DefaultAttr>>, s, t) :
        s \in SeqsUpTo(BodyRecs, MaxEofRecs),
        t \in {"none", "hdr", "body", "badsize"} }
    \cup
    { FileInput(<<DefaultAttr>>, s, t) :
        s \in SeqsUpTo(BodyRecs, MaxEofRecs), t \in {"none", "badsize"} }

InitEof == InitIter(EofInputs)

SpecEof == InitEof /\ [][Next]_vars

(***************************************************************************)
(* Inputs with several attributes.  The id layout of an attribute is the    *)
(* value RecordParseInfo::new (linux_perf_event_reader) computes from its   *)
(* attr; it is kept as a token of its own, so every combination the code of *)
(* the scheme choice distinguishes is covered.                              *)
(***************************************************************************)
IdLayouts == {"A", "B"}

\* Inputs whose attributes carry event ids and whose samples carry an id
\* (or none): every attribute passes the checks of the scheme choice.
IdAttrs == { Attr(ids, l, TRUE, TRUE) : ids \in SUBSET (1..MaxId), l \in IdLayouts }
IdRecs ==
    { Rec("SAMPLE", 2 * STRUCT_SIZE, None, id, None) :
        id \in {None} \cup { Some(n) : n \in 1..(MaxId + 1) } }
    \cup { Rec("THREAD_MAP", 2 * STRUCT_SIZE, None, None, None) }

AttrInputs ==
    { Input(mode, attrs, s, "none") :
        mode \in Modes,
        attrs \in SeqsUpTo(IdAttrs, MaxAttrs) \ {<<>>},
        s \in SeqsUpTo(IdRecs, MaxAttrRecs) }

InitAttr == InitIter(AttrInputs)

SpecAttr == InitAttr /\ [][Next]_vars

\* Inputs of the id-scheme choice: any layout, IDENTIFIER bit and
\* SAMPLE_ID_ALL flag per attribute.
ParseAttrs ==
    { Attr({}, l, idf, sia) : l \in IdLayouts, idf \in BOOLEAN, sia \in BOOLEAN }

ParseInputs ==
    { Input(mode, attrs, s, "none") :
        mode \in Modes,
        attrs \in SeqsUpTo(ParseAttrs, MaxParseAttrs),
        s \in SeqsUpTo(SampleRecs, 1) }

InitParse == InitIter(ParseInputs)

SpecParse == InitParse /\ [][Next]_vars

(***************************************************************************)
(* Pipe streams in which HEADER_ATTR and HEADER_FEATURE records stand       *)
(* anywhere, after the HEADER_ATTR record that opens the stream.            *)
(***************************************************************************)
MetaRecs ==
    { HeaderAttrRec(DefaultAttr), HeaderFeatureRec(1), HeaderFeatureRec(2),
      Rec("SAMPLE", 2 * STRUCT_SIZE, Some(1), None, None),
      Rec("THREAD_MAP", 2 * STRUCT_SIZE, None, None, None),
      Rec("FINISHED_ROUND", STRUCT_SIZE, None, None, None) }


\* the records of s whose type is (keep = TRUE) or is not (keep = FALSE) in T
RECURSIVE SelectTypes(_, _, _)
SelectTypes(s, T, keep) ==
    IF s = <<>> THEN <<>>
    ELSE (IF (Head(s).type \in T) = keep THEN <<Head(s)>> ELSE <<>>)
         \o SelectTypes(Tail(s), T, keep)

\* The file-mode twin of a pipe stream: a file whose event_types section
\* holds the attributes of the HEADER_ATTR records, whose feature bitset has
\* the features of the HEADER_FEATURE records, and whose data section holds
\* the other records.
FileTwin(inp) ==
    LET attr_recs == SelectTypes(inp.stream, {"HEADER_ATTR"}, TRUE)
        feature_recs == SelectTypes(inp.stream, {"HEADER_FEATURE"}, TRUE)
        keys == { feature_recs[i].data[1] : i \in 1..Len(feature_recs) }
    IN [EmptyInput("file") EXCEPT
          !.event_types = Some([i \in 1..Len(attr_recs) |-> attr_recs[i].data[1]]),
          !.features = InferFeatures(keys),
          !.nr_sections = Cardinality(keys),
          !.stream = SelectTypes(inp.stream, {"HEADER_ATTR", "HEADER_FEATURE"}, FALSE)]

\* The pipe streams, and the file-mode twin of each.
MetaInputs ==
    { IF mode = "pipe" THEN PipeInput(<<DefaultAttr>>, s, "none")
      ELSE FileTwin(PipeInput(<<DefaultAttr>>, s, "none")) :
        mode \in Modes, s \in SeqsUpTo(MetaRecs, MaxMetaRecs) }

InitMeta == InitIter(MetaInputs)

SpecMeta == InitMeta /\ [][Next]_vars

(***************************************************************************)
(* Compressed inputs.  perf record -z cuts the bytes of the record stream   *)
(* R into consecutive chunks and writes each chunk, zstd-compressed, as the *)
(* body of one PERF_RECORD_COMPRESSED / PERF_RECORD_COMPRESSED2 record.     *)
(* The data of such a record is the byte range [from, to) of R it carries;  *)
(* the field plain of the input holds the uncompressed twin of the input.   *)
(***************************************************************************)
\* The places a chunk may end inside the bytes of R: every multiple of the
\* header size, so also between the header and the body of a record.
CutPoints(R) == { STRUCT_SIZE * k : k \in 1..((SumSizes(R) \div STRUCT_SIZE) - 1) }

\* The chunk that starts at byte `from`, for the chunk ends `ends`.
ChunkEnd(ends, from) == CHOOSE e \in ends : e > from /\ \A f \in ends : f > from => e <= f

RECURSIVE Chunks(_, _, _)
Chunks(ctype, ends, from) ==
    IF \A e \in ends : e <= from THEN <<>>
    ELSE << Rec(ctype, 2 * STRUCT_SIZE, None, None,
                Some([from |-> from, to |-> ChunkEnd(ends, from)])) >>
         \o Chunks(ctype, ends, ChunkEnd(ends, from))

\* R compressed into the chunks that end at those of `cuts` that are cut
\* points of R, and at the end of R.
CompressedInput(mode, ctype, R, cuts) ==
    LET s == Chunks(ctype, (cuts \cap CutPoints(R)) \cup {SumSizes(R)}, 0)
    IN [Input(mode, <<DefaultAttr>>, s, "none") EXCEPT
            !.plain = Some(Input(mode, <<DefaultAttr>>, R, "none"))]

CompressedInputs ==
    { CompressedInput(mode, ctype, R, cuts) :
        mode \in Modes,
        ctype \in {"COMPRESSED", "COMPRESSED2"},
        R \in SeqsUpTo(BodyRecs, MaxZRecs) \ {<<>>},
        cuts \in SUBSET { STRUCT_SIZE * k : k \in 1..(2 * MaxZRecs - 1) } }

InitZ == InitIter(CompressedInputs)

SpecZ == InitZ /\ [][Next]_vars

\* next_record called until it returns Ok(None) or an error:
\* [err, returned].
RECURSIVE IterateAll(_, _)
IterateAll(it, acc) ==
    LET r == next_record(it) IN
    IF r.err /= None THEN [err |-> r.err, returned |-> acc]
    ELSE IF r.value = None THEN [err |-> None, returned |-> acc]
    ELSE IterateAll(r.it, Append(acc, r.value[1]))

\* The whole run on the input inp: the parse call, then IterateAll.
Iterate(inp) ==
    LET p == IF inp.mode = "file" THEN parse_file(inp) ELSE parse_pipe(inp) IN
    IF p.err /= None THEN [err |-> p.err, returned |-> <<>>]
    ELSE IterateAll(p.record_iter, <<>>)

\* The records of q with their bodies: data is the record of `stream` that
\* the buffer of the returned record holds the body of.
Contents(stream, q) ==
    [k \in 1..Len(q) |-> [q[k] EXCEPT !.data = stream[q[k].data]]]

(***************************************************************************)
(* What the claims about the iterator speak of.                             *)
(***************************************************************************)
MetadataTypes == {"HEADER_ATTR", "HEADER_FEATURE"}
InternalTypes == {"FINISHED_ROUND", "COMPRESSED", "COMPRESSED2"}

\* The position in input.stream of the first record next_record is to
\* deliver from: after the metadata records that open a pipe stream.
FirstBody ==
    IF input.mode = "file" THEN 1
    ELSE CHOOSE i \in 1..(Len(input.stream) + 1) :
            /\ \A j \in 1..(i - 1) : input.stream[j].type \in MetadataTypes
            /\ i <= Len(input.stream) => input.stream[i].type \notin MetadataTypes

BodyPositions == FirstBody..Len(input.stream)

\* The byte position of record i in the record stream.
ByteOffset(i) == SumSizes(SubSeq(input.stream, 1, i - 1))

\* The (timestamp, offset) key of record i.
KeyAt(i) ==
    RecordSortKey(IF is_builtin_type(input.stream[i].type)
                  THEN input.stream[i].ts ELSE None,
                  ByteOffset(i))

\* The round of record i: rounds are delimited by FINISHED_ROUND records.
RoundAt(i) ==
    1 + Cardinality({ j \in FirstBody..(i - 1) :
                        input.stream[j].type = "FINISHED_ROUND" })

\* No record of round N + 2 has a smaller key than a record of round N.
FinishedRoundContract ==
    \A i \in BodyPositions : \A j \in BodyPositions :
        ( /\ input.stream[i].type /= "FINISHED_ROUND"
          /\ input.stream[j].type /= "FINISHED_ROUND"
          /\ RoundAt(j) = RoundAt(i) + 2 ) => KeyAt(j) >= KeyAt(i)

EndedNormally ==
    ret.call = "next_record" /\ ret.err = None /\ ret.value = None

\* C1: on an input that respects the FINISHED_ROUND contract, the event
\* records are returned in non-decreasing (timestamp, offset) order.
C1_EventOrder ==
    FinishedRoundContract =>
        \A a \in 1..Len(returned) : \A b \in a..Len(returned) :
            (returned[a].kind = "EventRecord" /\ returned[b].kind = "EventRecord")
                => KeyAt(returned[a].data) <= KeyAt(returned[b].data)

\* C4: when next_record ends with Ok(None), the records returned are the
\* records of the stream other than the internal ones, each exactly once.
C4_ExactlyTheRecords ==
    EndedNormally =>
        /\ { returned[k].data : k \in 1..Len(returned) } =
              { i \in BodyPositions : input.stream[i].type \notin InternalTypes }
        /\ \A a \in 1..Len(returned) : \A b \in 1..Len(returned) :
              returned[a].data = returned[b].data => a = b

\* C5: next_record never returns a FINISHED_ROUND record.
C5_NoFinishedRound ==
    \A k \in 1..Len(returned) : returned[k].record_type /= "FINISHED_ROUND"

\* C8: in pipe mode, a stream that ends at a record boundary makes no call
\* fail and ends with Ok(None) once every record of it has been returned;
\* a stream that ends inside a record never ends with Ok(None).
C8_PipeEof ==
    input.mode = "pipe" =>
        /\ input.tail = "none" =>
              /\ ret.err = None
              /\ EndedNormally =>
                    \A i \in BodyPositions :
                        input.stream[i].type /= "FINISHED_ROUND" =>
                            \E k \in 1..Len(returned) : returned[k].data = i
        /\ input.tail \in {"hdr", "body"} => ~EndedNormally

\* C6: next_record never returns a record of type PERF_RECORD_COMPRESSED or
\* PERF_RECORD_COMPRESSED2, in file mode and in pipe mode.
C6_NoCompressedRecord ==
    \A k \in 1..Len(returned) :
        returned[k].record_type \notin {"COMPRESSED", "COMPRESSED2"}

\* C7: when the iteration of a compressed input has ended, the records it
\* returned are those the iteration of the uncompressed twin returns, in the
\* same order and with the same bodies.
C7_DecompressionTransparency ==
    (input.plain /= None /\ EndedNormally) =>
        LET twin == input.plain[1]
            run == Iterate(twin)
        IN /\ run.err = None
           /\ Contents(input.stream, returned) = Contents(twin.stream, run.returned)

\* The attributes of the input: the attribute section of a file, the
\* HEADER_ATTR records that open a pipe stream.
RECURSIVE HeaderAttrs(_, _)
HeaderAttrs(s, i) ==
    IF i >= FirstBody THEN <<>>
    ELSE (IF s[i].type = "HEADER_ATTR" THEN <<s[i].data[1]>> ELSE <<>>)
         \o HeaderAttrs(s, i + 1)

InputAttrs ==
    IF input.mode = "file" THEN input.event_types[1]
    ELSE HeaderAttrs(input.stream, 1)

\* The indexes (from 0) of the attributes whose id list holds the id.
AttrsListing(id) ==
    { k \in 0..(Len(InputAttrs) - 1) : id \in InputAttrs[k + 1].event_ids }

\* the id read from the record that r was made from
IdOf(r) == input.stream[r.data].id

\* C9 as stated: attr_index is below the number of attributes; it is 0 with
\* one attribute; with several, it is k whenever the id of the record is in
\* the id list of attribute k, and 0 when there is no id or no list has it.
C9_AttrIndexAsStated ==
    \A n \in 1..Len(returned) :
        returned[n].kind = "EventRecord" =>
            LET a == returned[n].attr_index[1]
                id == IdOf(returned[n])
            IN /\ a < Len(InputAttrs)
               /\ Len(InputAttrs) = 1 => a = 0
               /\ (Len(InputAttrs) > 1 /\ id /= None) =>
                     \A k \in AttrsListing(id[1]) : a = k
               /\ (Len(InputAttrs) > 1 /\ (id = None \/ AttrsListing(id[1]) = {}))
                     => a = 0

\* C9, amended: the same, but when the id of the record is in the id list
\* of one or more attributes, attr_index is the highest index among them.
C9_AttrIndex ==
    \A n \in 1..Len(returned) :
        returned[n].kind = "EventRecord" =>
            LET a == returned[n].attr_index[1]
                id == IdOf(returned[n])
            IN /\ returned[n].attr_index /= None
               /\ a < Len(InputAttrs)
               /\ Len(InputAttrs) = 1 => a = 0
               /\ (Len(InputAttrs) > 1 /\ id /= None /\ AttrsListing(id[1]) /= {}) =>
                     /\ a \in AttrsListing(id[1])
                     /\ \A k \in AttrsListing(id[1]) : k <= a
               /\ (Len(InputAttrs) > 1 /\ (id = None \/ AttrsListing(id[1]) = {}))
                     => a = 0

\* C9 witness: with two attributes that both list the id of a sample, the
\* sample has been returned attached to attribute 1.
C9_Witness ==
    /\ Len(InputAttrs) = 2
    /\ \E n \in 1..Len(returned) :
          /\ returned[n].kind = "EventRecord"
          /\ IdOf(returned[n]) /= None
          /\ AttrsListing(IdOf(returned[n])[1]) = {0, 1}
          /\ returned[n].attr_index = Some(1)

\* The attributes (indexes from 0) that fail a check of the PerAttribute
\* branch, and the error the claim names for attribute i.
Offending ==
    { i \in 0..(Len(InputAttrs) - 1) :
        \/ ~InputAttrs[i + 1].identifier
        \/ InputAttrs[i + 1].sample_id_all /= InputAttrs[1].sample_id_all }

LayoutsDiffer ==
    \E i \in 1..Len(InputAttrs) :
        InputAttrs[i].id_parse_info /= InputAttrs[1].id_parse_info

MultiEventErrors ==
    {"NoIdentifierDespiteMultiEvent", "InconsistentSampleIdAllWithMultiEvent"}

ErrorFor(i) ==
    [kind |-> IF ~InputAttrs[i + 1].identifier
              THEN "NoIdentifierDespiteMultiEvent"
              ELSE "InconsistentSampleIdAllWithMultiEvent",
     index |-> i]

\* C10: after parse_file / parse_pipe on attributes whose id layouts are not
\* all equal, the call succeeded, with the PerAttribute scheme, exactly when
\* no attribute lacks IDENTIFIER or differs from attribute 0 in
\* SAMPLE_ID_ALL; otherwise it failed with the error of the lowest offending
\* attribute, IDENTIFIER tested first.  With one attribute or equal layouts
\* it did not fail with either error.
C10_MultiEventCheck ==
    ret.call = "parse" =>
        /\ LayoutsDiffer =>
              /\ Offending = {} =>
                    /\ ret.err = None
                    /\ iter.id_parse_infos =
                          [kind |-> "PerAttribute",
                           sample_id_all |-> InputAttrs[1].sample_id_all]
              /\ Offending /= {} =>
                    ret.err = Some(ErrorFor(CHOOSE i \in Offending :
                                                \A j \in Offending : i <= j))
        /\ ~LayoutsDiffer =>
              (ret.err = None \/ ret.err[1].kind \notin MultiEventErrors)

\* C10 witness: a parse of three attributes with differing layouts has
\* failed at attribute 1, which lacks IDENTIFIER and also differs in
\* SAMPLE_ID_ALL, while attribute 2 offends as well.
C10_Witness ==
    /\ ret.call = "parse"
    /\ LayoutsDiffer
    /\ Offending = {1, 2}
    /\ ~InputAttrs[2].identifier
    /\ InputAttrs[2].sample_id_all /= InputAttrs[1].sample_id_all
    /\ ret.err = Some([kind |-> "NoIdentifierDespiteMultiEvent", index |-> 1])

\* C11: when the iteration of a pipe stream has ended, the attributes and
\* the feature keys of the PerfFile are those of its file-mode twin, no
\* HEADER_ATTR or HEADER_FEATURE record has been returned, and the records
\* returned are those the iteration of the twin returns, in the same order.
C11_PipeFileEquivalence ==
    (input.mode = "pipe" /\ EndedNormally) =>
        LET twin == FileTwin(input)
            p == parse_file(twin)
            run == Iterate(twin)
        IN /\ p.err = None
           /\ Range(perf_file.attributes) = Range(p.perf_file.attributes)
           /\ DOMAIN perf_file.feature_sections = DOMAIN p.perf_file.feature_sections
           /\ \A k \in 1..Len(returned) :
                 returned[k].record_type \notin {"HEADER_ATTR", "HEADER_FEATURE"}
           /\ run.err = None
           /\ Contents(input.stream, returned) = Contents(twin.stream, run.returned)

\* ---------------------------------------------------------------------
\* jitdump: header, buffered reader and record reader
\* (src/jitdump/header.rs, buffered_reader.rs, jitdump_reader.rs).
\*
\* A jitdump file is a header of total_size bytes followed by records laid
\* out back to back.  The byte at file offset k is modelled by the number
\* k, so that a slice of the file is the sequence of its offsets and a
\* copy that ends up in the wrong place is visible.  input.len is the
\* number of bytes the file holds so far; it only grows.
\* ---------------------------------------------------------------------

JitDumpHeader_SIZE == 40
JitDumpRecordHeader_SIZE == 16

\* The buffer_size argument of new_with_buffer_size.
buffer_size == 64

MaxJitRecs == 2

\* The records a file is built from: a body smaller than the buffer and a
\* body larger than the buffer, and a record without body.
JitRecKinds ==
    { [record_type |-> 0, total_size |-> 40, timestamp |-> 11],
      [record_type |-> 7, total_size |-> 96, timestamp |-> 14] }

JitCodeClose == [record_type |-> 3, total_size |-> 16, timestamp |-> 13]

JitBytes(a, b) == [i \in 1..(b - a) |-> a + i - 1]

RECURSIVE RecStart(_, _)
RecStart(f, i) ==
    IF i = 1 THEN f.total_size
    ELSE RecStart(f, i - 1) + f.recs[i - 1].total_size

JitFileLen(f) == RecStart(f, Len(f.recs) + 1)

\* JitDumpRecordHeader::parse: the three fields stored in the 16 bytes.
\* Bytes that are not the header of a record of the file decode to fields
\* that belong to no record.
JitDumpRecordHeader_parse(f, data) ==
    IF \E i \in 1..Len(f.recs) :
           data = JitBytes(RecStart(f, i), RecStart(f, i) + JitDumpRecordHeader_SIZE)
    THEN f.recs[CHOOSE i \in 1..Len(f.recs) :
           data = JitBytes(RecStart(f, i), RecStart(f, i) + JitDumpRecordHeader_SIZE)]
    ELSE [record_type |-> 255, total_size |-> JitDumpRecordHeader_SIZE, timestamp |-> 0]

\* JitDumpHeader::parse over the first `avail` bytes of the file.
JitDumpHeader_parse(f, avail) ==
    IF avail < 4 THEN [err |-> Some("Io"), header |-> None]
    ELSE IF f.magic \notin {"JiTD", "DTiJ"}
    THEN [err |-> Some("InvalidMagicBytes"), header |-> None]
    ELSE IF \/ avail < 12
            \/ avail < f.total_size
            \/ avail < JitDumpHeader_SIZE
    THEN [err |-> Some("NotEnoughBytesForHeader"), header |-> None]
    ELSE IF f.total_size < JitDumpHeader_SIZE
    THEN [err |-> Some("InvalidHeaderSize"), header |-> None]
    ELSE [err |-> None,
          header |-> Some([magic |-> f.magic, version |-> f.version,
                           total_size |-> f.total_size])]

\* read_exact_or_until_eof on the underlying reader at position fpos of a
\* file of flen bytes, into a destination of n bytes: the number of bytes
\* read.
read_exact_or_until_eof(fpos, flen, n) ==
    IF fpos >= flen THEN 0
    ELSE IF flen - fpos < n THEN flen - fpos ELSE n

available_data_len(b) ==
    IF b.read_pos.kind = "AtPosInFixedBuf"
    THEN b.write_pos - b.read_pos.pos
    ELSE (Len(b.dynamic_buf) - b.read_pos.pos) + b.write_pos

\* A read that forgets the bytes it got when it came short of filling
\* fixed_buf.
fill_fixed_buf_short_read_lost(b, extra_len) ==
    [b EXCEPT !.fixed_buf = [i \in 1..Len(b.fixed_buf) |->
                  IF i > b.write_pos /\ i <= b.write_pos + extra_len
                  THEN b.fpos + (i - b.write_pos - 1)
                  ELSE b.fixed_buf[i]],
              !.write_pos = IF b.write_pos + extra_len < Len(b.fixed_buf)
                            THEN b.write_pos
                            ELSE b.write_pos + extra_len,
              !.fpos = b.fpos + extra_len]

\* One read of the underlying reader into the free part of fixed_buf.
fill_fixed_buf(b, extra_len) ==
    [b EXCEPT !.fixed_buf = [i \in 1..Len(b.fixed_buf) |->
                  IF i > b.write_pos /\ i <= b.write_pos + extra_len
                  THEN b.fpos + (i - b.write_pos - 1)
                  ELSE b.fixed_buf[i]],
              !.write_pos = b.write_pos + extra_len,
              !.fpos = b.fpos + extra_len]

\* A move that forgets what is still unread in dynamic_buf.
move_to_dynamic_buf_drops_unread(b) ==
    [b EXCEPT !.dynamic_buf =
                  IF b.read_pos.kind = "AtPosInFixedBuf"
                  THEN SubSeq(b.fixed_buf, b.read_pos.pos + 1, Len(b.fixed_buf))
                  ELSE b.fixed_buf,
              !.read_pos = [kind |-> "AtPosInDynamicBuf", pos |-> 0],
              !.write_pos = 0]

\* fixed_buf is full: what is unread moves to dynamic_buf.
move_to_dynamic_buf(b) ==
    [b EXCEPT !.dynamic_buf =
                  IF b.read_pos.kind = "AtPosInFixedBuf"
                  THEN SubSeq(b.fixed_buf, b.read_pos.pos + 1, Len(b.fixed_buf))
                  ELSE SubSeq(b.dynamic_buf, b.read_pos.pos + 1, Len(b.dynamic_buf))
                       \o b.fixed_buf,
              !.read_pos = [kind |-> "AtPosInDynamicBuf", pos |-> 0],
              !.write_pos = 0]

RECURSIVE read_n_more_bytes(_, _, _, _)
read_n_more_bytes(b, flen, n, extra_bytes_achieved) ==
    IF extra_bytes_achieved >= n THEN [b |-> b, ok |-> TRUE]
    ELSE IF b.write_pos < Len(b.fixed_buf)
    THEN IF b.write_pos + read_exact_or_until_eof(b.fpos, flen,
                              Len(b.fixed_buf) - b.write_pos) < Len(b.fixed_buf)
         THEN [b |-> fill_fixed_buf(b, read_exact_or_until_eof(b.fpos, flen,
                                          Len(b.fixed_buf) - b.write_pos)),
               ok |-> extra_bytes_achieved
                      + read_exact_or_until_eof(b.fpos, flen,
                                                Len(b.fixed_buf) - b.write_pos) >= n]
         ELSE read_n_more_bytes(
                  fill_fixed_buf(b, Len(b.fixed_buf) - b.write_pos), flen, n,
                  extra_bytes_achieved + (Len(b.fixed_buf) - b.write_pos))
    ELSE read_n_more_bytes(move_to_dynamic_buf(b), flen, n, extra_bytes_achieved)

\* A consume_data whose Split view starts at the front of dynamic_buf
\* instead of at the read position.
consume_buffered_from_front(b, len) ==
    IF b.read_pos.kind = "AtPosInFixedBuf"
    THEN IF b.read_pos.pos + len > b.write_pos
         THEN [b |-> b, data |-> None, panic |-> TRUE]
         ELSE [b |-> [b EXCEPT !.read_pos.pos = b.read_pos.pos + len],
               data |-> Some(SubSeq(b.fixed_buf, b.read_pos.pos + 1,
                                    b.read_pos.pos + len)),
               panic |-> FALSE]
    ELSE IF len < Len(b.dynamic_buf) - b.read_pos.pos
    THEN [b |-> [b EXCEPT !.read_pos.pos = b.read_pos.pos + len],
          data |-> Some(SubSeq(b.dynamic_buf, b.read_pos.pos + 1,
                               b.read_pos.pos + len)),
          panic |-> FALSE]
    ELSE IF len - (Len(b.dynamic_buf) - b.read_pos.pos) > b.write_pos
    THEN [b |-> b, data |-> None, panic |-> TRUE]
    ELSE [b |-> [b EXCEPT !.read_pos =
                    [kind |-> "AtPosInFixedBuf",
                     pos |-> len - (Len(b.dynamic_buf) - b.read_pos.pos)]],
          data |-> Some(SubSeq(b.dynamic_buf, 1, Len(b.dynamic_buf) - b.read_pos.pos)
                        \o SubSeq(b.fixed_buf, 1,
                                  len - (Len(b.dynamic_buf) - b.read_pos.pos))),
          panic |-> FALSE]

\* consume_data once enough bytes are buffered: the bytes handed out (the
\* two halves of a Split joined) and the reader afterwards; panic when one
\* of the assertions fails.
consume_buffered(b, len) ==
    IF b.read_pos.kind = "AtPosInFixedBuf"
    THEN IF b.read_pos.pos + len > b.write_pos
         THEN [b |-> b, data |-> None, panic |-> TRUE]
         ELSE [b |-> [b EXCEPT !.read_pos.pos = b.read_pos.pos + len],
               data |-> Some(SubSeq(b.fixed_buf, b.read_pos.pos + 1,
                                    b.read_pos.pos + len)),
               panic |-> FALSE]
    ELSE IF len < Len(b.dynamic_buf) - b.read_pos.pos
    THEN [b |-> [b EXCEPT !.read_pos.pos = b.read_pos.pos + len],
          data |-> Some(SubSeq(b.dynamic_buf, b.read_pos.pos + 1,
                               b.read_pos.pos + len)),
          panic |-> FALSE]
    ELSE IF len - (Len(b.dynamic_buf) - b.read_pos.pos) > b.write_pos
    THEN [b |-> b, data |-> None, panic |-> TRUE]
    ELSE [b |-> [b EXCEPT !.read_pos =
                    [kind |-> "AtPosInFixedBuf",
                     pos |-> len - (Len(b.dynamic_buf) - b.read_pos.pos)]],
          data |-> Some(SubSeq(b.dynamic_buf, b.read_pos.pos + 1, Len(b.dynamic_buf))
                        \o SubSeq(b.fixed_buf, 1,
                                  len - (Len(b.dynamic_buf) - b.read_pos.pos))),
          panic |-> FALSE]

\* consume_data after read_n_more_bytes has answered.
consume_after_read(more, len) ==
    IF ~more.ok THEN [b |-> more.b, data |-> None, panic |-> FALSE]
    ELSE consume_buffered(more.b, len)

consume_data(b, flen, len) ==
    IF available_data_len(b) < len
    THEN consume_after_read(
             read_n_more_bytes(b, flen, len - available_data_len(b), 0), len)
    ELSE consume_buffered(b, len)

\* usize arithmetic wraps at 2^64.  The words of the model are 16 bits
\* wide, wider than every offset and length of its files, so that a wrapped
\* length is told from every length a file can have.
UsizeModulus == 65536

\* `x as i64` of a usize x.
as_i64(x) == IF x >= UsizeModulus \div 2 THEN x - UsizeModulus ELSE x

\* A skip_bytes that, after seeking, empties the fixed buffer but leaves
\* the read position where it was.
skip_bytes_keeps_read_pos(b, len) ==
    LET avail == available_data_len(b)
    IN IF avail < len
       THEN [b |-> [b EXCEPT !.fpos = b.fpos + as_i64(len - avail),
                             !.write_pos = 0],
             panic |-> FALSE]
       ELSE IF b.read_pos.kind = "AtPosInFixedBuf"
       THEN [b |-> [b EXCEPT !.read_pos.pos = b.read_pos.pos + len],
             panic |-> b.read_pos.pos + len > b.write_pos]
       ELSE LET remaining == Len(b.dynamic_buf) - b.read_pos.pos
            IN IF len < remaining
               THEN [b |-> [b EXCEPT !.read_pos.pos = b.read_pos.pos + len],
                     panic |-> FALSE]
               ELSE [b |-> [b EXCEPT !.read_pos =
                               [kind |-> "AtPosInFixedBuf", pos |-> len - remaining]],
                     panic |-> len - remaining > b.write_pos]

\* A skip_bytes that seeks by the whole length, as if nothing of it were
\* buffered.
skip_bytes_seeks_len(b, len) ==
    LET avail == available_data_len(b)
    IN IF avail < len
       THEN [b |-> [b EXCEPT !.fpos = b.fpos + as_i64(len),
                             !.read_pos = [kind |-> "AtPosInFixedBuf", pos |-> 0],
                             !.write_pos = 0],
             panic |-> FALSE]
       ELSE IF b.read_pos.kind = "AtPosInFixedBuf"
       THEN [b |-> [b EXCEPT !.read_pos.pos = b.read_pos.pos + len],
             panic |-> b.read_pos.pos + len > b.write_pos]
       ELSE LET remaining == Len(b.dynamic_buf) - b.read_pos.pos
            IN IF len < remaining
               THEN [b |-> [b EXCEPT !.read_pos.pos = b.read_pos.pos + len],
                     panic |-> FALSE]
               ELSE [b |-> [b EXCEPT !.read_pos =
                               [kind |-> "AtPosInFixedBuf", pos |-> len - remaining]],
                     panic |-> len - remaining > b.write_pos]

\* skip_bytes.  Seeking the underlying reader past the end of the file
\* succeeds, as it does for a File and for a Cursor; the seek offset is the
\* missing length cast to i64.
skip_bytes(b, len) ==
    LET avail == available_data_len(b)
    IN IF avail < len
       THEN [b |-> [b EXCEPT !.fpos = b.fpos + as_i64(len - avail),
                             !.read_pos = [kind |-> "AtPosInFixedBuf", pos |-> 0],
                             !.write_pos = 0],
             panic |-> FALSE]
       ELSE IF b.read_pos.kind = "AtPosInFixedBuf"
       THEN [b |-> [b EXCEPT !.read_pos.pos = b.read_pos.pos + len],
             panic |-> b.read_pos.pos + len > b.write_pos]
       ELSE LET remaining == Len(b.dynamic_buf) - b.read_pos.pos
            IN IF len < remaining
               THEN [b |-> [b EXCEPT !.read_pos.pos = b.read_pos.pos + len],
                     panic |-> FALSE]
               ELSE [b |-> [b EXCEPT !.read_pos =
                               [kind |-> "AtPosInFixedBuf", pos |-> len - remaining]],
                     panic |-> len - remaining > b.write_pos]

\* The reader new_with_buffer_size builds from the parsed header h and the
\* first_data_len bytes of the first read.
reader_from(f, h, first_data_len) ==
    IF h.err /= None THEN [err |-> h.err, reader |-> None]
    ELSE IF ~(h.header[1].total_size < buffer_size)
    THEN [err |-> Some("panic"), reader |-> None]
    ELSE [err |-> None,
          reader |-> Some(
            [reader |-> [fixed_buf |-> [i \in 1..buffer_size |->
                             IF i <= first_data_len THEN i - 1 ELSE -1],
                         dynamic_buf |-> <<>>,
                         read_pos |-> [kind |-> "AtPosInFixedBuf",
                                       pos |-> h.header[1].total_size],
                         write_pos |-> first_data_len,
                         fpos |-> first_data_len],
             header |-> h.header[1],
             endian |-> IF f.magic = "DTiJ" THEN "LittleEndian" ELSE "BigEndian",
             pending_record_header |-> None,
             current_record_start_offset |-> h.header[1].total_size])]

\* JitDumpReader::new_with_buffer_size over a file of which flen bytes exist.
JitDumpReader_new(f, flen) ==
    reader_from(f, JitDumpHeader_parse(f, read_exact_or_until_eof(0, flen, buffer_size)),
                read_exact_or_until_eof(0, flen, buffer_size))

\* A next_record_header that reports the header it has consumed without
\* keeping it.
pending_from_forgetful(r, f, c) ==
    IF c.panic THEN [r |-> r, err |-> Some("panic"), value |-> None]
    ELSE IF c.data = None
    THEN [r |-> [r EXCEPT !.reader = c.b], err |-> None, value |-> None]
    ELSE [r |-> [r EXCEPT !.reader = c.b],
          err |-> None,
          value |-> Some(JitDumpRecordHeader_parse(f, c.data[1]))]

\* next_record_header after consume_data has answered with c.
pending_from(r, f, c) ==
    IF c.panic THEN [r |-> r, err |-> Some("panic"), value |-> None]
    ELSE IF c.data = None
    THEN [r |-> [r EXCEPT !.reader = c.b], err |-> None, value |-> None]
    ELSE [r |-> [r EXCEPT !.reader = c.b,
                          !.pending_record_header =
                              Some(JitDumpRecordHeader_parse(f, c.data[1]))],
          err |-> None,
          value |-> Some(JitDumpRecordHeader_parse(f, c.data[1]))]

JitDumpReader_next_record_header(r, f, flen) ==
    IF r.pending_record_header = None
    THEN pending_from(r, f, consume_data(r.reader, flen, JitDumpRecordHeader_SIZE))
    ELSE [r |-> r, err |-> None, value |-> r.pending_record_header]

JitDumpReader_next_record_offset(r) == r.current_record_start_offset

\* next_record after consume_data has answered with c for the body of the
\* pending record.
record_from(r, c) ==
    IF c.panic THEN [r |-> r, err |-> Some("panic"), value |-> None]
    ELSE IF c.data = None
    THEN [r |-> [r EXCEPT !.reader = c.b], err |-> None, value |-> None]
    ELSE [r |-> [r EXCEPT !.reader = c.b,
                          !.pending_record_header = None,
                          !.current_record_start_offset =
                              @ + r.pending_record_header[1].total_size],
          err |-> None,
          value |-> Some([endian |-> r.endian,
                          start_offset |-> r.current_record_start_offset,
                          record_size |-> r.pending_record_header[1].total_size,
                          record_type |-> r.pending_record_header[1].record_type,
                          timestamp |-> r.pending_record_header[1].timestamp,
                          body |-> c.data[1]])]

\* `record_size as usize - JitDumpRecordHeader::SIZE`: a subtraction that
\* goes below zero panics in a build with overflow checks (debug) and wraps
\* in a build without (release).
body_size(record_size, overflow_checks) ==
    IF record_size >= JitDumpRecordHeader_SIZE
    THEN [panic |-> FALSE, len |-> record_size - JitDumpRecordHeader_SIZE]
    ELSE IF overflow_checks
    THEN [panic |-> TRUE, len |-> 0]
    ELSE [panic |-> FALSE,
          len |-> record_size - JitDumpRecordHeader_SIZE + UsizeModulus]

\* next_record after next_record_header has answered with h.
next_record_after_header(h, flen, overflow_checks) ==
    IF h.err /= None \/ h.value = None
    THEN [r |-> h.r, err |-> h.err, value |-> None]
    ELSE IF body_size(h.value[1].total_size, overflow_checks).panic
    THEN [r |-> h.r, err |-> Some("panic"), value |-> None]
    ELSE record_from(h.r, consume_data(h.r.reader, flen,
                              body_size(h.value[1].total_size, overflow_checks).len))

JitDumpReader_next_record(r, f, flen, overflow_checks) ==
    next_record_after_header(JitDumpReader_next_record_header(r, f, flen), flen,
                             overflow_checks)

\* A skip that leaves current_record_start_offset where it was.
skipped_from_same_offset(r, s) ==
    IF s.panic THEN [r |-> r, err |-> Some("panic"), value |-> FALSE, skipped |-> None]
    ELSE [r |-> [r EXCEPT !.reader = s.b,
                          !.pending_record_header = None],
          err |-> None, value |-> TRUE, skipped |-> r.pending_record_header]

\* skip_next_record after skip_bytes has answered with s.
skipped_from(r, s) ==
    IF s.panic THEN [r |-> r, err |-> Some("panic"), value |-> FALSE, skipped |-> None]
    ELSE [r |-> [r EXCEPT !.reader = s.b,
                          !.pending_record_header = None,
                          !.current_record_start_offset =
                              @ + r.pending_record_header[1].total_size],
          err |-> None, value |-> TRUE, skipped |-> r.pending_record_header]

skip_after_header(h, overflow_checks) ==
    IF h.err /= None \/ h.value = None
    THEN [r |-> h.r, err |-> h.err, value |-> FALSE, skipped |-> None]
    ELSE IF body_size(h.value[1].total_size, overflow_checks).panic
    THEN [r |-> h.r, err |-> Some("panic"), value |-> FALSE, skipped |-> None]
    ELSE skipped_from(h.r, skip_bytes(h.r.reader,
                               body_size(h.value[1].total_size, overflow_checks).len))

JitDumpReader_skip_next_record(r, f, flen, overflow_checks) ==
    skip_after_header(JitDumpReader_next_record_header(r, f, flen), overflow_checks)

\* ---- the jitdump reader as a state machine ----
\* input = [jit, len, overflow_checks] (the file, the bytes of it that
\* exist so far, and whether the build checks arithmetic overflow), iter =
\* the reader, ret = the last call, returned =
\* the records returned by next_record or skipped by skip_next_record.

JitOpened(n) ==
    /\ ret' = [call |-> "new", err |-> n.err, value |-> None, waited |-> FALSE]
    /\ phase' = IF n.err = None THEN "jit_open" ELSE "jit_failed"
    /\ iter' = n.reader
    /\ UNCHANGED <<input, perf_file, returned, svars>>

JitNew ==
    /\ phase = "jit_start"
    /\ JitOpened(JitDumpReader_new(input.jit, input.len))

\* The outcome r of a call: the reader afterwards, the result, and the
\* record to log when one was returned or skipped.  ret.waited remembers
\* that next_record has answered None since the last record was returned
\* or skipped.
JitCalled(call, r, value, logged) ==
    /\ ret' = [call |-> call, err |-> r.err, value |-> value,
               waited |-> IF logged /= <<>> THEN FALSE
                          ELSE ret.waited \/ (call = "next_record" /\ r.err = None)]
    /\ phase' = IF r.err = None THEN "jit_open" ELSE "jit_failed"
    /\ iter' = Some(r.r)
    /\ returned' = returned \o logged
    /\ UNCHANGED <<input, perf_file, svars>>

JitHeaderCalled(h) == JitCalled("next_record_header", h, h.value, <<>>)

\* next_record_header; next_record_timestamp and next_record_type are its
\* projections.
JitNextRecordHeader ==
    /\ phase = "jit_open"
    /\ JitHeaderCalled(JitDumpReader_next_record_header(iter[1], input.jit, input.len))

JitRecordCalled(n) ==
    JitCalled("next_record", n, n.value,
              IF n.value = None THEN <<>>
              ELSE <<[op |-> "next_record",
                      start_offset |-> n.value[1].start_offset,
                      record_size |-> n.value[1].record_size,
                      record_type |-> n.value[1].record_type,
                      timestamp |-> n.value[1].timestamp,
                      body |-> Some(n.value[1].body),
                      waited |-> ret.waited]>>)

JitNextRecord ==
    /\ phase = "jit_open"
    /\ JitRecordCalled(JitDumpReader_next_record(iter[1], input.jit, input.len,
                                                 input.overflow_checks))

JitSkipCalled(s) ==
    JitCalled("skip_next_record", s, Some(s.value),
              IF ~s.value THEN <<>>
              ELSE <<[op |-> "skip_next_record",
                      start_offset |-> iter[1].current_record_start_offset,
                      record_size |-> s.skipped[1].total_size,
                      record_type |-> s.skipped[1].record_type,
                      timestamp |-> s.skipped[1].timestamp,
                      body |-> None,
                      waited |-> ret.waited]>>)

JitSkipNextRecord ==
    /\ phase = "jit_open"
    /\ JitSkipCalled(JitDumpReader_skip_next_record(iter[1], input.jit, input.len,
                                                    input.overflow_checks))

\* The end of the bytes of record i: of its body, or of its header when it
\* declares a total_size below the size of the header.
RecEnd(f, i) ==
    IF f.recs[i].total_size < JitDumpRecordHeader_SIZE
    THEN RecStart(f, i) + JitDumpRecordHeader_SIZE
    ELSE RecStart(f, i + 1)

\* The lengths a file is observed at: cut inside the file header, and for
\* every record inside its header, after its header, before the last
\* JitGrain bytes of its body, and at its end.
JitGrain == 8

JitLens(f) ==
    { l \in {0, JitGrain, f.total_size - JitGrain, f.total_size} : l >= 0 }
    \cup UNION { { l \in { RecStart(f, i) + JitGrain,
                           RecStart(f, i) + JitDumpRecordHeader_SIZE,
                           RecStart(f, i + 1) - JitGrain,
                           RecStart(f, i + 1) } : l <= RecEnd(f, i) } :
                i \in 1..Len(f.recs) }

\* The writer of the file appends bytes, up to the next of these lengths.
JitGrow ==
    /\ phase \in {"jit_start", "jit_open"}
    /\ \E l \in JitLens(input.jit) :
        /\ l > input.len
        /\ \A m \in JitLens(input.jit) : m > input.len => l <= m
        /\ input' = [input EXCEPT !.len = l]
    /\ UNCHANGED <<phase, perf_file, iter, ret, returned, svars>>

NextJit == JitNew \/ JitNextRecordHeader \/ JitNextRecord \/ JitSkipNextRecord \/ JitGrow

\* Headers: both magics and a foreign one, versions 1 and 2, header sizes
\* below, at and above JitDumpHeader::SIZE.
JitHeaders ==
    { [magic |-> m, version |-> v, total_size |-> t] :
        m \in {"DTiJ", "JiTD", "ELF!"}, v \in {1, 2},
        t \in {JitDumpHeader_SIZE - 8, JitDumpHeader_SIZE, JitDumpHeader_SIZE + 8} }

JitFile(h, recs) ==
    [magic |-> h.magic, version |-> h.version, total_size |-> h.total_size,
     recs |-> recs]

\* Every header over at most one record, and the plain version 1 header
\* over every sequence of records with a body.
JitFiles ==
    { JitFile(h, recs) : h \in JitHeaders,
                         recs \in SeqsUpTo(JitRecKinds \cup {JitCodeClose}, 1) }
    \cup { JitFile([magic |-> "DTiJ", version |-> 1, total_size |-> JitDumpHeader_SIZE],
                    recs) : recs \in SeqsUpTo(JitRecKinds, MaxJitRecs) }

\* The records of these files declare a total_size of at least the record
\* header, so that the two builds behave alike on them.
JitInputs ==
    UNION { { [jit |-> f, len |-> l, overflow_checks |-> FALSE] : l \in JitLens(f) } :
            f \in JitFiles }

InitJit ==
    /\ input \in JitInputs
    /\ phase = "jit_start"
    /\ perf_file = None
    /\ iter = None
    /\ ret = [call |-> "none", err |-> None, value |-> None, waited |-> FALSE]
    /\ returned = <<>>
    /\ sorter = None
    /\ slog = None

SpecJit == InitJit /\ [][NextJit]_vars

\* ---- claims about the jitdump reader ----

JitRecs == input.jit.recs

\* The record the file holds at position k, as next_record returns it when
\* the file is complete from the start.
JitRecordAt(k) ==
    [start_offset |-> RecStart(input.jit, k),
     record_size |-> JitRecs[k].total_size,
     record_type |-> JitRecs[k].record_type,
     timestamp |-> JitRecs[k].timestamp,
     body |-> JitBytes(RecStart(input.jit, k) + JitDumpRecordHeader_SIZE,
                       RecStart(input.jit, k + 1))]

\* The file holds the whole of record k / the whole header of record k.
JitWhole(k) == k <= Len(JitRecs) /\ RecStart(input.jit, k + 1) <= input.len
JitHeaderWhole(k) ==
    k <= Len(JitRecs)
    /\ RecStart(input.jit, k) + JitDumpRecordHeader_SIZE <= input.len

\* The position in the file of the record the reader is at.
JitUpcoming == Len(returned) + 1

\* No assertion of the buffered reader fails.
JitNoPanic == ret.err /= Some("panic")

\* What the log shows of the record returned as the k-th.
JitLogged(k) ==
    [start_offset |-> returned[k].start_offset,
     record_size |-> returned[k].record_size,
     record_type |-> returned[k].record_type,
     timestamp |-> returned[k].timestamp,
     body |-> returned[k].body[1]]

\* Every record next_record has returned is the record of the file at its
\* position, whole, with the type, timestamp, offset and body bytes it has
\* in the complete file.
JitReturnedAsInFile ==
    \A k \in 1..Len(returned) :
        returned[k].op = "next_record" =>
            /\ JitWhole(k)
            /\ JitLogged(k) = JitRecordAt(k)

\* A step that is a call of the given method; the writer's steps are the
\* ones that change the file.
JitStep(call) == ret'.call = call /\ input' = input

\* The five fields of a record next_record has answered with.
JitAnswered(v) ==
    [start_offset |-> v.start_offset,
     record_size |-> v.record_size,
     record_type |-> v.record_type,
     timestamp |-> v.timestamp,
     body |-> v.body]

\* A next_record call returns the upcoming record when the file holds the
\* whole of it, and None, with nothing returned, when it does not.
JitNextRecordAnswers ==
    JitStep("next_record") =>
        IF JitWhole(JitUpcoming)
        THEN /\ ret'.value /= None
             /\ JitAnswered(ret'.value[1]) = JitRecordAt(JitUpcoming)
             /\ Len(returned') = Len(returned) + 1
        ELSE /\ ret'.value = None
             /\ ret'.err = None
             /\ returned' = returned

\* C12: over a file that holds the header, N whole records and a strict
\* prefix of the next, next_record returns the N records in file order and
\* then None on every call; once the file has grown to hold the whole of
\* record N+1, the next call returns it, with the type, timestamp, offset
\* and body bytes it has in the complete file.
C12_PartialRead == [](JitReturnedAsInFile /\ JitNoPanic) /\ [][JitNextRecordAnswers]_vars

\* C12 witness: next_record has returned the second record of the file,
\* whose body is larger than the buffer, after it had answered None for it
\* while the file held only a prefix of it.
C12_Witness ==
    /\ phase = "jit_open"
    /\ Len(returned) = 2
    /\ returned[2].op = "next_record"
    /\ returned[2].waited
    /\ returned[1].op = "next_record"
    /\ returned[2].record_size - JitDumpRecordHeader_SIZE > buffer_size
    /\ ret.call = "next_record"
    /\ ret.value /= None

\* The header next_record_header reports in the reader r, without changing
\* the reader of the state.
JitPeek(r) == JitDumpReader_next_record_header(r, input.jit, input.len).value

\* C13: skip_next_record returns Ok(true) only when the file holds the whole
\* of the upcoming record; when the file holds its header but not all of its
\* body, it returns Ok(false) and the header of the next record and
\* next_record_offset are what they were before the call.
C13_SkipOnlyWholeRecords ==
    [][JitStep("skip_next_record") =>
          /\ ret'.value = Some(TRUE) => JitWhole(JitUpcoming)
          /\ (JitHeaderWhole(JitUpcoming) /\ ~JitWhole(JitUpcoming)) =>
                /\ ret'.value = Some(FALSE)
                /\ JitDumpReader_next_record_offset(iter'[1])
                     = JitDumpReader_next_record_offset(iter[1])
                /\ JitPeek(iter'[1]) = JitPeek(iter[1])]_vars

\* The header of the file is whole and well formed but for its version.
JitHeaderWellFormed ==
    /\ input.jit.magic \in {"JiTD", "DTiJ"}
    /\ input.jit.total_size >= JitDumpHeader_SIZE
    /\ input.jit.total_size <= input.len

\* C14: a reader is only ever constructed over a header of version 1, and
\* the construction over a whole, otherwise well-formed header of another
\* version has failed with the unrecognized-version error.
C14_VersionChecked ==
    /\ phase = "jit_open" => iter[1].header.version = 1
    /\ (ret.call = "new" /\ JitHeaderWellFormed /\ input.jit.version /= 1) =>
           ret.err = Some("UnrecognizedVersion")

RECURSIVE SumRecordSizes(_)
SumRecordSizes(q) ==
    IF q = <<>> THEN 0 ELSE Head(q).record_size + SumRecordSizes(Tail(q))

\* next_record_offset is the header size plus the sizes of the records
\* returned or skipped so far, which is the file offset of the header of the
\* upcoming record, and every record returned starts where the records
\* before it end.
JitOffsetInv ==
    phase = "jit_open" =>
        /\ JitDumpReader_next_record_offset(iter[1])
             = iter[1].header.total_size + SumRecordSizes(returned)
        /\ Len(returned) <= Len(JitRecs)
        /\ JitDumpReader_next_record_offset(iter[1]) = RecStart(input.jit, JitUpcoming)
        /\ \A k \in 1..Len(returned) :
              returned[k].start_offset
                = iter[1].header.total_size + SumRecordSizes(SubSeq(returned, 1, k - 1))

\* A record that next_record returns starts at next_record_offset as it was
\* just before the call, and a step that returns or skips no record leaves
\* next_record_offset unchanged.
JitOffsetStep ==
    phase = "jit_open" =>
        /\ JitStep("next_record") /\ Len(returned') > Len(returned) =>
              returned'[Len(returned')].start_offset
                = JitDumpReader_next_record_offset(iter[1])
        /\ returned' = returned =>
              JitDumpReader_next_record_offset(iter'[1])
                = JitDumpReader_next_record_offset(iter[1])

\* C15: in every reachable state next_record_offset is header.total_size
\* plus the record_size of every record returned or skipped so far, the file
\* offset of the next record header; a returned record's start_offset is
\* next_record_offset just before the call; calls that return None or false
\* leave it unchanged.
C15_NextRecordOffset == []JitOffsetInv /\ [][JitOffsetStep]_vars

\* C15 witness: after one record was skipped and one returned, a call has
\* skip_next_record call has answered false
\* over a file that holds no further header.
C15_Witness ==
    /\ phase = "jit_open"
    /\ Len(returned) = 2
    /\ returned[1].op = "skip_next_record"
    /\ returned[2].op = "next_record"
    /\ returned[1].record_size > JitDumpRecordHeader_SIZE
    /\ ret.call = "skip_next_record"
    /\ ret.value = Some(FALSE)

\* The pending header is the header of the upcoming record of the file.
JitPendingInv ==
    (phase = "jit_open" /\ iter[1].pending_record_header /= None) =>
        /\ JitUpcoming <= Len(JitRecs)
        /\ iter[1].pending_record_header = Some(JitRecs[JitUpcoming])

\* What next_record answers in the reader r.
JitWouldReturn(r) ==
    JitDumpReader_next_record(r, input.jit, input.len, input.overflow_checks).value

\* A next_record_header call leaves the answer of next_record, the offset
\* and the log as they were, and what it reports is the header of the
\* record next_record answers with; a next_record call that answers None
\* leaves a reported header reported.
JitPeekStep ==
    /\ JitStep("next_record_header") =>
          LET before == JitWouldReturn(iter[1])
              after == JitWouldReturn(iter'[1])
          IN /\ after = before
             /\ returned' = returned
             /\ JitDumpReader_next_record_offset(iter'[1])
                  = JitDumpReader_next_record_offset(iter[1])
             /\ JitPeek(iter'[1]) = ret'.value
             /\ before /= None =>
                   /\ ret'.value /= None
                   /\ ret'.value[1].record_type = before[1].record_type
                   /\ ret'.value[1].timestamp = before[1].timestamp
    /\ (JitStep("next_record") /\ returned' = returned
         /\ iter[1].pending_record_header /= None) =>
          iter'[1].pending_record_header = iter[1].pending_record_header

\* C16: next_record_header, next_record_timestamp and next_record_type do
\* not consume the record: they leave the result of next_record unchanged,
\* they report the type and timestamp of the record next_record returns
\* next, and a header once reported stays reported while next_record
\* answers None for lack of body bytes.
C16_PeekDoesNotConsume == []JitPendingInv /\ [][JitPeekStep]_vars

\* C16 witness: next_record_header has reported the header of a record
\* whose body the file does not hold yet, after next_record had answered
\* None for it.
C16_Witness ==
    /\ phase = "jit_open"
    /\ ret.call = "next_record_header"
    /\ ret.value /= None
    /\ ret.waited
    /\ JitHeaderWhole(JitUpcoming)
    /\ ~JitWhole(JitUpcoming)
    /\ JitWouldReturn(iter[1]) = None

\* ---- order of the records of one batch ----

\* The positions in input.stream of the records that were released by the
\* same finish_round or finish as the record just returned and are still to
\* be returned: next_record reads a new round only when outgoing is empty.
BatchRest == { iter.sorter.outgoing[k].buffer : k \in 1..Len(iter.sorter.outgoing) }

JustReturned == returned[Len(returned)].data

IsUserRecord(i) == is_user_type(input.stream[i].type)
IsTimestamped(i) ==
    is_builtin_type(input.stream[i].type) /\ input.stream[i].ts /= None

ReturnedOne == phase = "iter" /\ ret.call = "next_record" /\ ret.value /= None

MagicInputs ==
    { [Input(mode, <<DefaultAttr>>, s, "none") EXCEPT !.magic = m, !.header_bytes = hb] :
        mode \in Modes, m \in {"PERFILE2", "2ELIFREP", "PERFILE1"},
        hb \in {"full", "short"}, s \in SeqsUpTo(SampleRecs, 2) }

InitMagic == InitIter(MagicInputs)

SpecMagic == InitMagic /\ [][Next]_vars

\* C18: PERFILE2 selects little-endian, 2ELIFREP selects big-endian, and
\* under any other magic value the parse has failed with the
\* unrecognized-magic error, whatever follows the magic.
C18_Magic ==
    /\ (phase = "iter" /\ input.magic = "PERFILE2") => perf_file.endian = "LittleEndian"
    /\ (phase = "iter" /\ input.magic = "2ELIFREP") => perf_file.endian = "BigEndian"
    /\ (phase /= "start" /\ input.magic \notin {"PERFILE2", "2ELIFREP"}) =>
          /\ phase = "failed"
          /\ ret.err = Some([kind |-> "UnrecognizedMagicValue"])

\* ---- attribute sources and feature sections ----

MaxSectionRecs == 3

\* The feature bits a file header is given: the first and the last bit of a
\* word, the first bit of the next word, the last bit of the set, and the
\* two features that select an attribute source.
SectionFeatures == {0, HEADER_EVENT_DESC, 63, 64, HEADER_SIMPLEPERF_META_INFO, 255}

\* One attribute per source, told apart by its event id.
SrcEventDesc == <<Attr({1}, "A", TRUE, TRUE)>>
SrcEventTypes == <<Attr({2}, "A", TRUE, TRUE)>>
SrcAttrs == <<Attr({3}, "A", TRUE, TRUE)>>

\* The bitset [u64; 4] whose set bits are the numbers of S.
FeatureSetOf(S) == [c \in 1..4 |-> { b \in 0..63 : 64 * (c - 1) + b \in S }]

\* Files with every subset of the feature bits, with and without an
\* event_types section, with a good and a bad Simpleperf meta info.
SectionFileInputs ==
    { [EmptyInput("file") EXCEPT
          !.features = FeatureSetOf(S),
          !.nr_sections = Cardinality(S),
          !.event_desc = SrcEventDesc,
          !.event_types = et,
          !.meta_info = mi,
          !.attrs = SrcAttrs,
          !.stream = s] :
        S \in SUBSET SectionFeatures,
        et \in {None, Some(SrcEventTypes)},
        mi \in {"ok", "missing", "malformed"},
        s \in SeqsUpTo({Rec("SAMPLE", 2 * STRUCT_SIZE, Some(1), None, None)}, 1) }

\* Pipe streams of HEADER_ATTR, HEADER_FEATURE and sample records; 256 and
\* 300 are feature numbers the bitset has no room for.
SectionPipeRecs ==
    { HeaderAttrRec(DefaultAttr),
      Rec("SAMPLE", 2 * STRUCT_SIZE, Some(1), None, None) }
    \cup { HeaderFeatureRec(f) : f \in {63, 64, 255, 256, 300} }

SectionPipeInputs ==
    { PipeInput(<<DefaultAttr>>, s, "none") : s \in SeqsUpTo(SectionPipeRecs, MaxSectionRecs) }

InitSections == InitIter(SectionFileInputs \cup SectionPipeInputs)

SpecSections == InitSections /\ [][Next]_vars

\* The parse of the input has succeeded / has failed with the error e.
ParseOk == phase = "iter"
ParseFailedWith(e) ==
    phase = "failed" /\ ret.call = "parse" /\ ret.err = Some([kind |-> e])

\* Bit f of the feature bitset of the file header.
HeaderBit(f) == (f % 64) \in input.features[(f \div 64) + 1]

\* C19: in file mode the attributes come from the EVENT_DESC section when
\* the EVENT_DESC feature is present; else from the event_types section
\* when its size is not zero; else, when SIMPLEPERF_META_INFO is present,
\* from the Simpleperf attr section, the parse failing with
\* NoEventTypesInSimpleperfMetaInfo when event_type_info is missing or
\* malformed; else from the plain attr section, with empty id lists.
C19_AttributeSource ==
    (input.mode = "file" /\ phase /= "start") =>
        IF HeaderBit(HEADER_EVENT_DESC)
        THEN ParseOk /\ perf_file.attributes = input.event_desc
        ELSE IF input.event_types /= None
        THEN ParseOk /\ perf_file.attributes = input.event_types[1]
        ELSE IF HeaderBit(HEADER_SIMPLEPERF_META_INFO)
        THEN IF input.meta_info = "ok"
             THEN ParseOk /\ perf_file.attributes = input.attrs
             ELSE ParseFailedWith("NoEventTypesInSimpleperfMetaInfo")
        ELSE /\ ParseOk
             /\ Len(perf_file.attributes) = Len(input.attrs)
             /\ \A i \in 1..Len(input.attrs) :
                   /\ perf_file.attributes[i].event_ids = {}
                   /\ perf_file.attributes[i].id_parse_info = input.attrs[i].id_parse_info
                   /\ perf_file.attributes[i].identifier = input.attrs[i].identifier
                   /\ perf_file.attributes[i].sample_id_all = input.attrs[i].sample_id_all

\* C19 witness: a file with the EVENT_DESC feature, an event_types section
\* and a Simpleperf meta info has been parsed, and its attributes are those
\* of the EVENT_DESC section and of no other source.
C19_Witness ==
    /\ input.mode = "file"
    /\ ParseOk
    /\ HeaderBit(HEADER_EVENT_DESC)
    /\ HeaderBit(HEADER_SIMPLEPERF_META_INFO)
    /\ input.event_types /= None
    /\ perf_file.attributes = input.event_desc
    /\ perf_file.attributes /= input.event_types[1]
    /\ perf_file.attributes /= input.attrs

\* The features of the HEADER_FEATURE records that open a pipe stream.
ObservedFeatures ==
    { input.stream[i].data[1] :
        i \in { j \in 1..(FirstBody - 1) : input.stream[j].type = "HEADER_FEATURE" } }

\* PerfFile::feature_section_data(f) is Some.
HasSectionData(f) == f \in DOMAIN perf_file.feature_sections

\* C20: after a successful parse, for every f below 256 has_feature(f)
\* holds exactly when feature_section_data(f) is Some; in pipe mode the bits
\* set are those of the HEADER_FEATURE records observed; in file mode the
\* section of the k-th lowest set bit is the k-th descriptor.
C20_FeaturesMatchSections ==
    ParseOk =>
        /\ \A f \in 0..255 : has_feature(perf_file.features, f) <=> HasSectionData(f)
        /\ input.mode = "pipe" =>
              \A f \in 0..255 : has_feature(perf_file.features, f) <=> f \in ObservedFeatures
        /\ input.mode = "file" =>
              \A f \in 0..255 :
                  HeaderBit(f) =>
                      /\ HasSectionData(f)
                      /\ perf_file.feature_sections[f]
                           = Cardinality({ g \in 0..f : HeaderBit(g) })

\* C20 witness: a pipe stream with the features 63, 64 and 256 has been
\* parsed (bits in two words, and a feature the bitset has no room for).
C20_Witness ==
    /\ input.mode = "pipe"
    /\ ParseOk
    /\ ObservedFeatures = {63, 64, 256}
    /\ has_feature(perf_file.features, 63)
    /\ has_feature(perf_file.features, 64)
    /\ DOMAIN perf_file.feature_sections = {63, 64, 256}

\* ---- JitCodeDebugInfoRecord::lookup ----

MaxEntries == 4     \* entries of a JIT_CODE_DEBUG_INFO record
MaxAddr == 4        \* code addresses are 0..MaxAddr

\* [T]::binary_search_by_key(&addr, |entry| entry.code_addr) over the
\* entries, with zero-based indices as in the code: [ok |-> TRUE, i |-> i]
\* is Ok(i), [ok |-> FALSE, i |-> i] is Err(i). The loop halves `size`
\* around `base`.
RECURSIVE binary_search_loop(_, _, _, _)
binary_search_loop(entries, addr, base, size) ==
    IF size > 1
    THEN LET half == size \div 2
             mid == base + half
         IN binary_search_loop(entries, addr,
                IF entries[mid + 1].code_addr > addr THEN base ELSE mid,
                size - half)
    ELSE base

binary_search_by_key(entries, addr) ==
    IF Len(entries) = 0 THEN [ok |-> FALSE, i |-> 0]
    ELSE LET base == binary_search_loop(entries, addr, 0, Len(entries))
             key == entries[base + 1].code_addr
         IN IF key = addr THEN [ok |-> TRUE, i |-> base]
            ELSE [ok |-> FALSE, i |-> base + (IF key < addr THEN 1 ELSE 0)]

\* A lookup that answers only exact matches.
JitCodeDebugInfoRecord_lookup_exact(entries, addr) ==
    LET found == binary_search_by_key(entries, addr)
    IN IF found.ok THEN Some(found.i) ELSE None

\* JitCodeDebugInfoRecord::lookup: the zero-based index of the entry the
\* returned reference points at, or None.
JitCodeDebugInfoRecord_lookup(entries, addr) ==
    LET found == binary_search_by_key(entries, addr)
    IN IF found.ok THEN Some(found.i)
       ELSE IF found.i = 0 THEN None
       ELSE Some(found.i - 1)

\* Entry lists in any order: parse_impl pushes the entries as the file
\* holds them.
LookupInputs ==
    { [entries |-> [i \in DOMAIN q |-> [code_addr |-> q[i]]], addr |-> 0] :
        q \in SeqsUpTo(0..MaxAddr, MaxEntries) }

InitLookup ==
    /\ input \in LookupInputs
    /\ phase = "lookup"
    /\ perf_file = None
    /\ iter = None
    /\ ret = [call |-> "none", value |-> None]
    /\ returned = <<>>
    /\ sorter = None
    /\ slog = None

\* record.lookup(addr), for an address up to one past the largest code
\* address.
Lookup ==
    /\ phase = "lookup"
    /\ \E addr \in 0..(MaxAddr + 1) :
        /\ input' = [input EXCEPT !.addr = addr]
        /\ ret' = [call |-> "lookup",
                   value |-> JitCodeDebugInfoRecord_lookup(input.entries, addr)]
    /\ UNCHANGED <<phase, perf_file, iter, returned, sorter, slog>>

NextLookup == Lookup

SpecLookup == InitLookup /\ [][NextLookup]_vars

EntriesSorted ==
    \A i, j \in DOMAIN input.entries :
        i <= j => input.entries[i].code_addr <= input.entries[j].code_addr

\* C21: over entries sorted by code_addr, lookup(addr) returns None exactly
\* when there is no entry or addr is below the first entry's code_addr, and
\* otherwise an entry with the greatest code_addr that is <= addr.
C21_Lookup ==
    (ret.call = "lookup" /\ EntriesSorted) =>
        LET entries == input.entries
            addr == input.addr
        IN /\ ret.value = None <=>
                (entries = <<>> \/ addr < entries[1].code_addr)
           /\ ret.value /= None =>
                LET e == entries[ret.value[1] + 1]
                IN /\ e.code_addr <= addr
                   /\ \A j \in DOMAIN entries :
                        entries[j].code_addr <= addr =>
                            entries[j].code_addr <= e.code_addr

\* C21 witness: a lookup between the code addresses of two entries of a
\* sorted list has returned the lower one.
C21_Witness ==
    /\ ret.call = "lookup" /\ EntriesSorted
    /\ ret.value /= None
    /\ ret.value[1] + 2 \in DOMAIN input.entries
    /\ input.entries[ret.value[1] + 1].code_addr < input.addr
    /\ input.addr < input.entries[ret.value[1] + 2].code_addr

\* ---- BuildIdEvent::parse ----

CHUNK_SIZE == 4
BUILD_ID_FIELD_LEN == 24
BUILD_ID_MAX_LEN == 20
PERF_RECORD_MISC_BUILD_ID_SIZE == 32768
BYTES_BEFORE_PATH == STRUCT_SIZE + 4 + BUILD_ID_FIELD_LEN

\* header.misc & PERF_RECORD_MISC_BUILD_ID_SIZE != 0, over a u16.
HasBuildIdSize(misc) == (misc \div PERF_RECORD_MISC_BUILD_ID_SIZE) % 2 = 1

\* build_id_bytes.chunks(CHUNK_SIZE).rev() from the chunk that ends at
\* `len`: the length left after the all-zero chunks at the end are removed.
RECURSIVE strip_zero_chunks(_, _)
strip_zero_chunks(bytes, len) ==
    IF len = 0 THEN 0
    ELSE LET start == ((len - 1) \div CHUNK_SIZE) * CHUNK_SIZE
         IN IF \E i \in (start + 1)..len : bytes[i] /= 0
            THEN len
            ELSE strip_zero_chunks(bytes, start)

\* A detection that removes trailing zero bytes one by one.
detect_build_id_len_bytewise(build_id_bytes) ==
    LET nz == { i \in DOMAIN build_id_bytes : build_id_bytes[i] /= 0 }
    IN IF nz = {} THEN 0 ELSE CHOOSE i \in nz : \A j \in nz : j <= i

detect_build_id_len(build_id_bytes) ==
    strip_zero_chunks(build_id_bytes, Len(build_id_bytes)) % 256

Min(a, b) == IF a <= b THEN a ELSE b

\* memchr(0, path_bytes).unwrap_or(path_len)
PathEnd(path_bytes) ==
    LET zeros == { i \in DOMAIN path_bytes : path_bytes[i] = 0 }
    IN IF zeros = {} THEN Len(path_bytes)
       ELSE (CHOOSE i \in zeros : \A j \in zeros : i <= j) - 1

\* BuildIdEvent::parse over a reader that holds the record header, the pid,
\* the 24-byte build id field and inp.path_bytes.
BuildIdEvent_parse(inp) ==
    LET path_len == IF inp.size >= BYTES_BEFORE_PATH
                    THEN inp.size - BYTES_BEFORE_PATH ELSE 0
    IN IF Len(inp.path_bytes) < path_len
       THEN [err |-> Some([kind |-> "IoError"]), value |-> None]
       ELSE LET path_bytes == SubSeq(inp.path_bytes, 1, path_len)
                build_id_len ==
                    IF HasBuildIdSize(inp.misc)
                    THEN Min(inp.build_id_bytes[BUILD_ID_MAX_LEN + 1], BUILD_ID_MAX_LEN)
                    ELSE detect_build_id_len(
                             SubSeq(inp.build_id_bytes, 1, BUILD_ID_MAX_LEN))
            IN [err |-> None,
                value |-> Some([build_id |-> SubSeq(inp.build_id_bytes, 1, build_id_len),
                                file_path |-> SubSeq(path_bytes, 1, PathEnd(path_bytes))])]

\* The build id field: five 4-byte groups, each all zero or with its first
\* or its last byte set, then the length byte and three bytes that are zero
\* or left over from the producer.
BuildIdGroups == { <<0, 0, 0, 0>>, <<0, 0, 0, 1>>, <<1, 0, 0, 0>> }
BuildIdFields ==
    { g[1] \o g[2] \o g[3] \o g[4] \o g[5] \o <<b, u, u, u>> :
        g \in [1..5 -> BuildIdGroups], b \in {0, 3, 20, 21, 255}, u \in {0, 7} }

\* misc with and without the BUILD_ID_SIZE bit, under two CPU modes; a
\* path that fills the record, one that ends at a zero byte, and a record
\* whose size promises more path bytes than the reader holds.
BuildIdInputs ==
    { [misc |-> m, size |-> BYTES_BEFORE_PATH + p[2], build_id_bytes |-> f,
       path_bytes |-> p[1]] :
        m \in {1, 2, PERF_RECORD_MISC_BUILD_ID_SIZE + 1, PERF_RECORD_MISC_BUILD_ID_SIZE + 2},
        f \in BuildIdFields,
        p \in { <<<<97, 98>>, 2>>, <<<<97, 0, 98, 0>>, 4>>, <<<<97>>, 4>> } }

InitBuildId ==
    /\ input \in BuildIdInputs
    /\ phase = "build_id"
    /\ perf_file = None
    /\ iter = None
    /\ ret = [call |-> "none", err |-> None, value |-> None]
    /\ returned = <<>>
    /\ sorter = None
    /\ slog = None

BuildIdParse ==
    /\ phase = "build_id"
    /\ ret.call = "none"
    /\ LET r == BuildIdEvent_parse(input)
       IN ret' = [call |-> "parse", err |-> r.err, value |-> r.value]
    /\ UNCHANGED <<input, phase, perf_file, iter, returned, sorter, slog>>

NextBuildId == BuildIdParse

SpecBuildId == InitBuildId /\ [][NextBuildId]_vars

BuildIdParsed == ret.call = "parse" /\ ret.err = None /\ phase = "build_id"
BuildIdLen == Len(ret.value[1].build_id)
\* the groups of the first 20 bytes after the first k are all zero
ZeroFromGroup(k) ==
    \A i \in (CHUNK_SIZE * k + 1)..BUILD_ID_MAX_LEN : input.build_id_bytes[i] = 0
BuildIdDetected ==
    /\ BuildIdLen % CHUNK_SIZE = 0
    /\ ZeroFromGroup(BuildIdLen \div CHUNK_SIZE)
    /\ BuildIdLen > 0 => ~ZeroFromGroup((BuildIdLen \div CHUNK_SIZE) - 1)

\* C22 as stated: with the BUILD_ID_SIZE flag the length of the build id is
\* byte 20 of the field; without it the length is what is left of the first
\* 20 bytes after the trailing all-zero 4-byte groups are removed; the build
\* id is never longer than 20 bytes.
C22_ExplicitLengthWins ==
    BuildIdParsed =>
        /\ HasBuildIdSize(input.misc) =>
              BuildIdLen = input.build_id_bytes[BUILD_ID_MAX_LEN + 1]
        /\ ~HasBuildIdSize(input.misc) => BuildIdDetected
        /\ BuildIdLen <= BUILD_ID_MAX_LEN

\* C22 amended: with the BUILD_ID_SIZE flag the length of the build id is
\* byte 20 of the field or 20, whichever is less; without the flag it is
\* what is left of the first 20 bytes after the trailing all-zero 4-byte
\* groups are removed, whatever bytes 20..24 hold; the build id is a prefix
\* of the field and never longer than 20 bytes.
C22_BuildIdLen ==
    BuildIdParsed =>
        /\ HasBuildIdSize(input.misc) =>
              BuildIdLen = Min(input.build_id_bytes[BUILD_ID_MAX_LEN + 1], BUILD_ID_MAX_LEN)
        /\ ~HasBuildIdSize(input.misc) => BuildIdDetected
        /\ BuildIdLen <= BUILD_ID_MAX_LEN
        /\ ret.value[1].build_id = SubSeq(input.build_id_bytes, 1, BuildIdLen)

\* C22 witness: without the flag, a field whose fifth group is not zero and
\* whose bytes 20..24 are not zero has been parsed to a 20-byte build id.
C22_Witness ==
    /\ BuildIdParsed
    /\ ~HasBuildIdSize(input.misc)
    /\ input.build_id_bytes[BUILD_ID_MAX_LEN] = 0
    /\ input.build_id_bytes[BUILD_ID_MAX_LEN + 1] = 255
    /\ input.build_id_bytes[BUILD_ID_FIELD_LEN] = 7
    /\ BuildIdLen = BUILD_ID_MAX_LEN

\* ---- DsoKey::detect ----

\* Paths are sequences of bytes, a byte written as a one-character string;
\* "xFF" is a byte that is not valid UTF-8 and "uFFFD" stands for the three
\* bytes of the replacement character.
P_anon == <<"/", "/", "a", "n", "o", "n">>
P_stack == <<"[", "s", "t", "a", "c", "k", "]">>
P_heap == <<"[", "h", "e", "a", "p", "]">>
P_vvar == <<"[", "v", "v", "a", "r", "]">>
P_kallsyms == <<"[", "k", "e", "r", "n", "e", "l", ".", "k", "a", "l", "l", "s", "y", "m", "s", "]">>
P_guest_kallsyms == <<"[", "g", "u", "e", "s", "t", ".", "k", "e", "r", "n", "e", "l", ".", "k", "a", "l", "l", "s", "y", "m", "s">>
P_vdso32 == <<"[", "v", "d", "s", "o", "3", "2", "]">>
P_vdsox32 == <<"[", "v", "d", "s", "o", "x", "3", "2", "]">>
P_vdso == <<"[", "v", "d", "s", "o", "]">>
P_vsyscall == <<"[", "v", "s", "y", "s", "c", "a", "l", "l", "]">>
P_ko == <<".", "k", "o">>

starts_with(path, prefix) ==
    Len(path) >= Len(prefix) /\ SubSeq(path, 1, Len(prefix)) = prefix

\* filename.strip_suffix(suffix): Some(rest) or None
strip_suffix(s, suffix) ==
    IF Len(s) >= Len(suffix) /\ SubSeq(s, Len(s) - Len(suffix) + 1, Len(s)) = suffix
    THEN Some(SubSeq(s, 1, Len(s) - Len(suffix)))
    ELSE None

\* String::from_utf8_lossy: invalid bytes become the replacement character.
from_utf8_lossy(s) == [i \in DOMAIN s |-> IF s[i] = "xFF" THEN "uFFFD" ELSE s[i]]

\* The part of the path after its last '/', the whole path without one.
FileNameOf(path) ==
    LET slashes == { i \in DOMAIN path : path[i] = "/" }
    IN IF slashes = {} THEN path
       ELSE SubSeq(path, (CHOOSE i \in slashes : \A j \in slashes : j <= i) + 1, Len(path))

CpuModes == {"Unknown", "Kernel", "User", "Hypervisor", "GuestKernel", "GuestUser"}

\* The values of enum DsoKey; fields a variant lacks are empty.
DsoKeyOf(variant) ==
    [variant |-> variant, name |-> <<>>, file_name |-> <<>>, full_path |-> <<>>]
KernelModule(name) == [DsoKeyOf("KernelModule") EXCEPT !.name = name]
User(file_name, full_path) ==
    [DsoKeyOf("User") EXCEPT !.file_name = file_name, !.full_path = full_path]

\* A User key that leaves the full path out.
DsoKey_user_by_file_name(path, cpu_mode, filename) ==
    IF cpu_mode \in {"Kernel", "GuestKernel"} /\ strip_suffix(filename, P_ko) /= None
    THEN Some(KernelModule(<<"[">> \o from_utf8_lossy(strip_suffix(filename, P_ko)[1]) \o <<"]">>))
    ELSE IF cpu_mode = "Kernel" THEN Some(DsoKeyOf("Kernel"))
    ELSE IF cpu_mode = "GuestKernel" THEN Some(DsoKeyOf("GuestKernel"))
    ELSE IF cpu_mode \in {"User", "GuestUser"}
    THEN Some(User(from_utf8_lossy(filename), <<>>))
    ELSE None

\* The match on (cpu_mode, filename.strip_suffix(b".ko")).
DsoKey_by_file_name(path, cpu_mode, filename) ==
    IF cpu_mode \in {"Kernel", "GuestKernel"} /\ strip_suffix(filename, P_ko) /= None
    THEN Some(KernelModule(<<"[">> \o from_utf8_lossy(strip_suffix(filename, P_ko)[1]) \o <<"]">>))
    ELSE IF cpu_mode = "Kernel" THEN Some(DsoKeyOf("Kernel"))
    ELSE IF cpu_mode = "GuestKernel" THEN Some(DsoKeyOf("GuestKernel"))
    ELSE IF cpu_mode \in {"User", "GuestUser"}
    THEN Some(User(from_utf8_lossy(filename), path))
    ELSE None

DsoKey_detect(path, cpu_mode) ==
    IF path \in {P_anon, P_stack, P_heap, P_vvar} THEN None
    ELSE IF starts_with(path, P_kallsyms)
    THEN Some(DsoKeyOf(IF cpu_mode = "GuestKernel" THEN "GuestKernel" ELSE "Kernel"))
    ELSE IF starts_with(path, P_guest_kallsyms) THEN Some(DsoKeyOf("GuestKernel"))
    ELSE IF path = P_vdso32 THEN Some(DsoKeyOf("Vdso32"))
    ELSE IF path = P_vdsox32 THEN Some(DsoKeyOf("VdsoX32"))
    ELSE IF path = P_vdso THEN Some(DsoKeyOf("Vdso64"))
    ELSE IF path = P_vsyscall THEN Some(DsoKeyOf("Vsyscall"))
    ELSE IF cpu_mode \in {"Kernel", "GuestKernel"} /\ starts_with(path, <<"[">>)
    THEN Some(KernelModule(from_utf8_lossy(path)))
    ELSE DsoKey_by_file_name(path, cpu_mode, FileNameOf(path))

\* Paths: a directory part (none, the root, a directory, a bracket, the
\* kernel prefixes), a name (empty, plain, not UTF-8, or one of the special
\* names) and an ending.
DsoPaths ==
    { d \o n \o e :
        d \in { <<>>, <<"/">>, <<"/", "d", "/">>, <<"[">>, P_kallsyms,
                P_kallsyms \o <<"/">>, P_guest_kallsyms },
        n \in { <<>>, <<"m">>, <<"xFF">>, Tail(P_anon), P_stack, P_heap, P_vvar,
                P_vdso32, P_vdsox32, P_vdso, P_vsyscall },
        e \in { <<>>, P_ko, <<"_", "t">> } }

DsoInputs == { [path |-> p, other |-> p, cpu_mode |-> m] : p \in DsoPaths, m \in CpuModes }

InitDso ==
    /\ input \in DsoInputs
    /\ phase = "dso"
    /\ perf_file = None
    /\ iter = None
    /\ ret = [call |-> "none", value |-> None]
    /\ returned = <<>>
    /\ sorter = None
    /\ slog = None

\* DsoKey::detect on the path and on another path, under the same CPU mode.
DsoDetect ==
    /\ phase = "dso"
    /\ ret.call = "none"
    /\ \E other \in DsoPaths :
        /\ input' = [input EXCEPT !.other = other]
        /\ ret' = [call |-> "detect",
                   value |-> <<DsoKey_detect(input.path, input.cpu_mode),
                               DsoKey_detect(other, input.cpu_mode)>>]
    /\ UNCHANGED <<phase, perf_file, iter, returned, sorter, slog>>

NextDso == DsoDetect

SpecDso == InitDso /\ [][NextDso]_vars

DsoDetected == phase = "dso" /\ ret.call = "detect"
DsoKeyOfPath == ret.value[1]
DsoKeyOfOther == ret.value[2]
KernelMode == input.cpu_mode \in {"Kernel", "GuestKernel"}
EndsInKo(path) == strip_suffix(FileNameOf(path), P_ko) /= None
ModuleNamed(path) ==
    Some(KernelModule(<<"[">> \o from_utf8_lossy(strip_suffix(FileNameOf(path), P_ko)[1])
                        \o <<"]">>))
DsoKernelKey ==
    Some(DsoKeyOf(IF input.cpu_mode = "GuestKernel" THEN "GuestKernel" ELSE "Kernel"))
DsoFixedKeys ==
    /\ starts_with(input.path, P_kallsyms) => DsoKeyOfPath = DsoKernelKey
    /\ input.path = P_vdso => DsoKeyOfPath = Some(DsoKeyOf("Vdso64"))
    /\ input.path \in {P_anon, P_stack, P_heap, P_vvar} => DsoKeyOfPath = None
SameFileName ==
    /\ input.cpu_mode = "User"
    /\ FileNameOf(input.path) = FileNameOf(input.other)
BothStartWith(prefix) ==
    starts_with(input.path, prefix) /\ starts_with(input.other, prefix)

MaxAuxSize == 9     \* the size field and the count of data bytes are 0..MaxAuxSize

\* The widths of size, offset, reference, index, tid, cpu and _reserved.
AuxtraceFields == <<8, 8, 8, 4, 4, 4, 4>>

\* The reads of `fields` off data that holds `len` bytes: the count of bytes
\* left after them, or -1 when a read finds too few bytes.
RECURSIVE read_fields(_, _)
read_fields(fields, len) ==
    IF fields = <<>> THEN len
    ELSE IF len < Head(fields) THEN -1
    ELSE read_fields(Tail(fields), len - Head(fields))

\* Auxtrace::parse over data whose first eight bytes hold d.size and which
\* is d.len bytes long.
Auxtrace_parse(d) ==
    LET rest == read_fields(AuxtraceFields, d.len)
    IN IF rest < 0
       THEN [err |-> Some([kind |-> "IoError"]), value |-> None]
       ELSE [err |-> None, value |-> Some([size |-> d.size, aux_data_len |-> rest])]

RECURSIVE SumWidths(_)
SumWidths(fields) == IF fields = <<>> THEN 0 ELSE Head(fields) + SumWidths(Tail(fields))
AuxtraceFixedLen == SumWidths(AuxtraceFields)

\* Record data of every length up to the fixed fields and MaxAuxSize bytes
\* more, with every size field.
AuxtraceInputs ==
    { [size |-> s, len |-> n] :
        s \in 0..MaxAuxSize, n \in 0..(AuxtraceFixedLen + MaxAuxSize) }

InitAux ==
    /\ input \in AuxtraceInputs
    /\ phase = "auxtrace"
    /\ perf_file = None
    /\ iter = None
    /\ ret = [call |-> "none", err |-> None, value |-> None]
    /\ returned = <<>>
    /\ sorter = None
    /\ slog = None

AuxtraceParse ==
    /\ phase = "auxtrace"
    /\ ret.call = "none"
    /\ LET r == Auxtrace_parse(input)
       IN ret' = [call |-> "parse", err |-> r.err, value |-> r.value]
    /\ UNCHANGED <<input, phase, perf_file, iter, returned, sorter, slog>>

NextAux == AuxtraceParse

SpecAux == InitAux /\ [][NextAux]_vars

\* C24: every Auxtrace value that parse has produced has an aux_data of
\* exactly `size` bytes.
C24_AuxDataLen ==
    (phase = "auxtrace" /\ ret.call = "parse" /\ ret.err = None) =>
        ret.value[1].aux_data_len = ret.value[1].size

\* ---- the end of the iteration ----

\* The records that are still to be returned: read and held by the sorter,
\* held back as the first record of a pipe stream, or not read yet and not a
\* FINISHED_ROUND.
RecordsLeft ==
    \/ iter.sorter.incoming /= <<>>
    \/ iter.sorter.outgoing /= <<>>
    \/ iter.pending_first_record /= None
    \/ \E i \in iter.reader.pos..Len(input.stream) : input.stream[i].type /= "FINISHED_ROUND"

EndOfRecords == phase = "iter" /\ ret.call = "next_record" /\ ret.value = None

\* A next_record call that does not fail returns a record when one is left.
NextRecordKeepsReading ==
    (phase = "iter" /\ RecordsLeft /\ ret'.call = "next_record" /\ ret'.err = None)
        => ret'.value /= None

\* C25: when next_record has returned Ok(None), the whole stream has been
\* read and the sorter holds nothing; and a call made while a record is left
\* returns one, whatever FINISHED_ROUND records it has to read through.
C25_NoneOnlyAtEnd ==
    /\ [](EndOfRecords =>
            /\ iter.reader.pos = Len(input.stream) + 1
            /\ iter.pending_first_record = None
            /\ iter.sorter.incoming = <<>> /\ iter.sorter.outgoing = <<>>
            /\ ~RecordsLeft)
    /\ [][NextRecordKeepsReading]_vars

\* C25 witness: a data section that opens with a FINISHED_ROUND, which
\* releases nothing, has been iterated to the end and two records or more
\* have been returned.
C25_Witness ==
    /\ EndOfRecords
    /\ input.mode = "file"
    /\ Len(input.stream) >= 3
    /\ input.stream[1].type = "FINISHED_ROUND"
    /\ input.stream[Len(input.stream)].type = "FINISHED_ROUND"
    /\ Len(returned) >= 2

\* ---- what a finished round releases ----

\* The largest key inserted in the rounds that came before the round now
\* open, the Default key when there is none.
MaxKeyBeforeRound ==
    LET earlier == { slog.keys[v] : v \in { w \in DOMAIN slog.keys :
                                              slog.round_of[w] <= slog.rounds } }
    IN IF earlier = {} THEN 0 ELSE CHOOSE k \in earlier : \A l \in earlier : l <= k

\* The values finish_round has appended to outgoing in this step.
Released ==
    SubSeq(sorter'.outgoing, Len(sorter.outgoing) + 1, Len(sorter'.outgoing))

FinishRoundReleases ==
    slog'.rounds = slog.rounds + 1 =>
        /\ ~sorter'.panicked
        /\ sorter.prev_max = MaxKeyBeforeRound
        /\ Len(sorter'.outgoing) >= Len(sorter.outgoing)
        /\ SubSeq(sorter'.outgoing, 1, Len(sorter.outgoing)) = sorter.outgoing
        /\ Range(Released) =
              { e[2] : e \in { x \in Range(sorter.incoming) : x[1] <= MaxKeyBeforeRound } }
        /\ \A i, j \in DOMAIN Released :
              i <= j => slog.keys[Released[i]] <= slog.keys[Released[j]]
        /\ Range(sorter'.incoming) =
              { x \in Range(sorter.incoming) : x[1] > MaxKeyBeforeRound }
        /\ Len(sorter'.incoming) + Len(Released) = Len(sorter.incoming)

InsertReleasesNothing ==
    Len(slog'.keys) = Len(slog.keys) + 1 =>
        /\ sorter'.outgoing = sorter.outgoing
        /\ sorter'.incoming = Append(sorter.incoming, <<slog'.keys[Len(slog'.keys)], Len(slog'.keys)>>)

C27_CountMatchesIncoming ==
    sorter.incoming_lte_prev_max_count =
        Cardinality({ i \in DOMAIN sorter.incoming : sorter.incoming[i][1] <= sorter.prev_max })

\* ---- how long a record stays buffered ----

\* The round of the record at position i of the stream: rounds are
\* delimited by the FINISHED_ROUND records, the first round is round 1.
RoundOfPosition(i) ==
    1 + Cardinality({ j \in 1..(i - 1) :
                        j <= Len(input.stream) /\ input.stream[j].type = "FINISHED_ROUND" })

\* The round the next read belongs to.
CurrentRound == RoundOfPosition(iter.reader.pos)

IncomingRounds ==
    { RoundOfPosition(iter.sorter.incoming[k][2].buffer) :
        k \in DOMAIN iter.sorter.incoming }

\* C28: every record in the sorter's incoming queue was read in the current
\* round or in the round before it; after a finish_round, before anything
\* else is read, every record in incoming is of the round just finished.
C28_BoundedBuffering ==
    phase = "iter" =>
        /\ \A r \in IncomingRounds : r >= CurrentRound - 1
        /\ (ret.call = "next_record" /\ ret.value /= None
            /\ iter.reader.pos > 1
            /\ input.stream[iter.reader.pos - 1].type = "FINISHED_ROUND"
            /\ iter.pending_first_record = None) =>
                \A r \in IncomingRounds : r = CurrentRound - 1

\* C28 witness: the third or a later FINISHED_ROUND has released a record
\* of the round before the one it ends and has kept records of the round it
\* ends only.
C28_Witness ==
    /\ ReturnedOne
    /\ iter.reader.pos > 1
    /\ input.stream[iter.reader.pos - 1].type = "FINISHED_ROUND"
    /\ CurrentRound >= 3
    /\ IncomingRounds = {CurrentRound - 1}
    /\ RoundOfPosition(JustReturned) = CurrentRound - 2

\* ---- the buffer recycling queue ----

\* The records that hold a body buffer: those in the sorter and the pending
\* first record.
BuffersHeld ==
    Len(iter.sorter.incoming) + Len(iter.sorter.outgoing)
        + (IF iter.pending_first_record = None THEN 0 ELSE 1)

\* A next_record call that returns a record makes its buffer the current
\* body and adds the previous body to the queue, from which every record
\* read by the call has taken a buffer unless it had to create one.
ReturnRecyclesBody ==
    (phase = "iter" /\ ret'.call = "next_record" /\ ret'.value /= None) =>
        /\ iter'.current_event_body = Some(ret'.value[1].data)
        /\ has_more(iter.sorter) =>
              iter'.buffers_for_recycling = iter.buffers_for_recycling + 1
        /\ iter'.buffers_for_recycling
                  + Cardinality({ i \in iter.reader.pos..(iter'.reader.pos - 1) :
                                    input.stream[i].type /= "FINISHED_ROUND" })
              = iter.buffers_for_recycling + 1 + (iter'.allocated - iter.allocated)

\* C29: the recycling queue is never longer than the largest number of
\* records the sorter has held at one time; every body buffer created is
\* held by a record or has come back to the queue with a returned record,
\* i.e. a buffer is created only when the queue is empty; each returned
\* record moves the previous current body to the queue.
C29_RecyclingBounded ==
    /\ [](phase = "iter" =>
            /\ iter.buffers_for_recycling <= iter.max_in_sorter
            /\ iter.buffers_for_recycling + BuffersHeld = iter.allocated
            /\ iter.buffers_for_recycling <= Len(returned))
    /\ [][ReturnRecyclesBody]_vars

\* C29 witness: the sorter has held two records at a time, a later record
\* was read into a buffer taken from the queue, every record has been
\* returned, and the queue holds two buffers.
C29_Witness ==
    /\ phase = "iter"
    /\ iter.buffers_for_recycling = 2
    /\ iter.max_in_sorter = 2
    /\ iter.allocated < Len(returned) + BuffersHeld
    /\ BuffersHeld = 0

\* ---- offsets as the tiebreak ----

TimestampAt(i) ==
    IF is_builtin_type(input.stream[i].type) THEN input.stream[i].ts ELSE None

IncomingKeys == [k \in DOMAIN iter.sorter.incoming |-> iter.sorter.incoming[k][1]]

\* C30: the offsets process_record is called with are strictly increasing
\* (so the first, that of the pending first record in pipe mode, is the
\* smallest), each is the byte position of its record counted from the
\* first record that is not pipe metadata, the keys in the sorter are
\* pairwise distinct, and of two records with
\* the same timestamp released in one batch the earlier one in the input is
\* returned first.
C30_OffsetsIncrease ==
    phase = "iter" =>
        /\ \A k, l \in DOMAIN iter.offsets :
              k < l => iter.offsets[k] < iter.offsets[l]
        /\ \A k, l \in DOMAIN IncomingKeys :
              k /= l => IncomingKeys[k] /= IncomingKeys[l]
        /\ \A k \in DOMAIN iter.sorter.incoming :
              IncomingKeys[k] =
                  RecordSortKey(TimestampAt(iter.sorter.incoming[k][2].buffer),
                                ByteOffset(iter.sorter.incoming[k][2].buffer)
                                    - ByteOffset(FirstBody))
        /\ ReturnedOne =>
              \A j \in BatchRest :
                  TimestampAt(j) = TimestampAt(JustReturned) => JustReturned < j

\* C30 witness: in pipe mode the pending first record has been returned
\* ahead of a later record of the same batch that has the same timestamp,
\* while a third record waits in the sorter.
C30_Witness ==
    /\ ReturnedOne
    /\ input.mode = "pipe"
    /\ JustReturned = FirstBody
    /\ TimestampAt(JustReturned) /= None
    /\ \E j \in BatchRest : TimestampAt(j) = TimestampAt(JustReturned)
    /\ Len(iter.offsets) >= 3

\* ---------------------------------------------------------------------
\* BufferedReader on its own (src/jitdump/buffered_reader.rs,
\* read_exact.rs): a fixed buffer of any size over a stream that grows,
\* read by consume_data and skip_bytes calls of any length.
\*
\* input = [size, start, len]: the length of fixed_buf, the consumed_len
\* the reader is constructed with and the number of bytes the stream holds
\* so far.  iter = the reader, ret = the last call and the logical
\* read position after it (ret.retry: the call has returned the view that
\* the call before it, of the same length, answered None for), returned =
\* the bytes the successful consume_data calls have handed out, joined.  phase is buf_reading until
\* the first skip_bytes, buf_skipped after it.
\* ---------------------------------------------------------------------

MaxBufSize == 3    \* fixed_buf holds 1..MaxBufSize bytes
MaxStream == 5     \* the stream grows to at most MaxStream bytes
MaxConsume == 4    \* consume_data and skip_bytes lengths are 0..MaxConsume
MaxChunk == 2      \* one read returns at most 1..MaxChunk bytes

\* read_exact_or_until_eof as the loop it is, over a reader at position
\* fpos of a stream of flen bytes that returns at most chunk bytes per
\* read and 0 at the end of the stream: the number of bytes read into a
\* destination of n bytes.
RECURSIVE read_exact_loop(_, _, _, _, _)
read_exact_loop(fpos, flen, n, chunk, total_read) ==
    IF n = 0 THEN total_read
    ELSE IF Min(Min(chunk, n), IF fpos >= flen THEN 0 ELSE flen - fpos) = 0
    THEN total_read
    ELSE read_exact_loop(fpos + Min(Min(chunk, n), flen - fpos), flen,
                         n - Min(Min(chunk, n), flen - fpos), chunk,
                         total_read + Min(Min(chunk, n), flen - fpos))

\* BufferedReader::new_with_partially_read_buffer over a buffer whose first
\* write_pos bytes are the first write_pos bytes of the stream.
new_with_partially_read_buffer(buf_len, consumed_len, write_pos) ==
    IF ~(consumed_len < buf_len) THEN [panic |-> TRUE, b |-> None]
    ELSE [panic |-> FALSE,
          b |-> Some([fixed_buf |-> [i \in 1..buf_len |->
                                        IF i <= write_pos THEN i - 1 ELSE -1],
                      dynamic_buf |-> <<>>,
                      read_pos |-> [kind |-> "AtPosInFixedBuf", pos |-> consumed_len],
                      write_pos |-> write_pos,
                      fpos |-> write_pos])]

\* The readers JitDumpReader::new_with_buffer_size constructs: the buffer
\* holds what the first read_exact_or_until_eof has read, and consumed_len
\* bytes of it, the header, are consumed.
BufInputs ==
    { [size |-> s, start |-> c, len |-> l] :
        s \in 1..MaxBufSize, c \in 0..MaxBufSize, l \in 0..MaxStream }

InitBuf ==
    /\ input \in { i \in BufInputs : i.start < i.size /\ i.start <= i.len }
    /\ phase = "buf_reading"
    /\ perf_file = None
    /\ iter = new_with_partially_read_buffer(
                  input.size, input.start,
                  read_exact_or_until_eof(0, input.len, input.size)).b
    /\ ret = [call |-> "new", len |-> 0, data |-> None, panic |-> FALSE,
              offset |-> input.start, retry |-> FALSE]
    /\ returned = <<>>
    /\ sorter = None
    /\ slog = None

\* The outcome c of a consume_data(n) call.
BufConsumed(n, c) ==
    /\ ret' = [call |-> "consume_data", len |-> n, data |-> c.data, panic |-> c.panic,
               offset |-> IF c.data = None THEN ret.offset ELSE ret.offset + n,
               retry |-> /\ c.data /= None
                         /\ ret.call = "consume_data"
                         /\ ret.data = None
                         /\ ret.len = n]
    /\ phase' = IF c.panic THEN "buf_failed" ELSE phase
    /\ iter' = Some(c.b)
    /\ returned' = IF c.data = None THEN returned ELSE returned \o c.data[1]
    /\ UNCHANGED <<input, perf_file, svars>>

BufConsume ==
    /\ phase \in {"buf_reading", "buf_skipped"}
    /\ \E n \in 0..MaxConsume : BufConsumed(n, consume_data(iter[1], input.len, n))

\* The outcome s of a skip_bytes(n) call.
BufSkipped(n, s) ==
    /\ ret' = [call |-> "skip_bytes", len |-> n, data |-> None, panic |-> s.panic,
               offset |-> ret.offset + n, retry |-> FALSE]
    /\ phase' = IF s.panic THEN "buf_failed" ELSE "buf_skipped"
    /\ iter' = Some(s.b)
    /\ UNCHANGED <<input, perf_file, returned, svars>>

\* skip_bytes, to a position of at most MaxStream.
BufSkip ==
    /\ phase \in {"buf_reading", "buf_skipped"}
    /\ \E n \in 0..MaxConsume :
        /\ ret.offset + n <= MaxStream
        /\ BufSkipped(n, skip_bytes(iter[1], n))

\* The writer of the stream appends bytes.
BufGrow ==
    /\ phase \in {"buf_reading", "buf_skipped"}
    /\ \E l \in (input.len + 1)..MaxStream : input' = [input EXCEPT !.len = l]
    /\ UNCHANGED <<phase, perf_file, iter, ret, returned, svars>>

NextBuf == BufConsume \/ BufSkip \/ BufGrow

SpecBuf == InitBuf /\ [][NextBuf]_vars

\* ---- claims about the buffered reader ----

\* The free part of fixed_buf, the destination of the next read.
BufFree == Len(iter[1].fixed_buf) - iter[1].write_pos

\* However the underlying reader splits its data into short reads, a
\* read_exact_or_until_eof call reads what is there, up to the destination.
ShortReadsJoined ==
    \A k \in 1..MaxChunk :
        read_exact_loop(iter[1].fpos, input.len, BufFree, k, 0)
          = read_exact_or_until_eof(iter[1].fpos, input.len, BufFree)

\* C31: the views returned by the successful consume_data calls, joined,
\* are the bytes of the stream from the initial read position on, in order,
\* without gap or repetition, for every buffer size, every sequence of
\* lengths and every way the reads come short or hit a temporary end.
C31_StreamFidelity ==
    /\ phase = "buf_reading" =>
          /\ returned = JitBytes(input.start, input.start + Len(returned))
          /\ ret.offset = input.start + Len(returned)
          /\ ret.call = "consume_data" /\ ret.data /= None =>
                ret.data[1] = JitBytes(ret.offset - ret.len, ret.offset)
    /\ phase \in {"buf_reading", "buf_skipped"} => ShortReadsJoined

\* C31 witness: consume_data has returned a view longer than the fixed
\* buffer, after earlier views, from a reader constructed past the start
\* of its buffer.
C31_Witness ==
    /\ phase = "buf_reading"
    /\ ret.call = "consume_data"
    /\ ret.data /= None
    /\ Len(ret.data[1]) > input.size
    /\ Len(returned) > Len(ret.data[1])
    /\ input.start > 0

\* The bytes of the reader b that are buffered and not yet consumed, in
\* stream order.
Unread(b) ==
    IF b.read_pos.kind = "AtPosInFixedBuf"
    THEN SubSeq(b.fixed_buf, b.read_pos.pos + 1, b.write_pos)
    ELSE SubSeq(b.dynamic_buf, b.read_pos.pos + 1, Len(b.dynamic_buf))
         \o SubSeq(b.fixed_buf, 1, b.write_pos)

\* The stream offset of the logical read position of b.
StreamPos(b) == b.fpos - available_data_len(b)

\* What is buffered is what the underlying reader has delivered from the
\* logical read position on.
UnreadIntact == Unread(iter[1]) = JitBytes(StreamPos(iter[1]), iter[1].fpos)

\* A step that is a consume_data call.
BufStep(call) == ret'.call = call /\ input' = input

\* A consume_data(n) call returns the n bytes at the logical read position
\* when the stream holds them, and otherwise None, leaving the position
\* where it was and every byte that was buffered still buffered.
ConsumeAnswers ==
    BufStep("consume_data") =>
        IF ret'.len = 0 \/ StreamPos(iter[1]) + ret'.len <= input.len
        THEN /\ ret'.data /= None
             /\ ret'.data[1] = JitBytes(StreamPos(iter[1]), StreamPos(iter[1]) + ret'.len)
             /\ StreamPos(iter'[1]) = StreamPos(iter[1]) + ret'.len
        ELSE /\ ret'.data = None
             /\ ~ret'.panic
             /\ StreamPos(iter'[1]) = StreamPos(iter[1])
             /\ Len(Unread(iter'[1])) >= Len(Unread(iter[1]))
             /\ SubSeq(Unread(iter'[1]), 1, Len(Unread(iter[1]))) = Unread(iter[1])

\* C32: a consume_data(n) that returns None does not advance the logical
\* read position and drops none of the bytes already pulled from the
\* reader, also when unread bytes moved from the fixed to the dynamic
\* buffer during the attempt; a later consume_data(n), once the bytes
\* exist, returns the n bytes starting at the same stream offset.
C32_NoneIsRetryable ==
    [](phase \in {"buf_reading", "buf_skipped"} => UnreadIntact)
    /\ [][ConsumeAnswers]_vars

\* C32 witness: a consume_data(n) for more bytes than the fixed buffer
\* holds has returned its view on the retry, after the first attempt had
\* answered None and had moved unread bytes to the dynamic buffer.
C32_Witness ==
    /\ ret.call = "consume_data"
    /\ ret.retry
    /\ ret.len > input.size
    /\ ret.data[1] = JitBytes(ret.offset - ret.len, ret.offset)
    /\ Len(iter[1].dynamic_buf) > 0
    /\ input.start > 0

\* No assertion of the buffered reader has failed.
BufNoPanic == ~ret.panic

\* The bounds the slice expressions of consume_data, available_data_len,
\* read_n_more_bytes and skip_bytes rely on.
BufBounds(b) ==
    /\ b.write_pos <= Len(b.fixed_buf)
    /\ b.write_pos >= 0
    /\ b.read_pos.pos >= 0
    /\ b.read_pos.kind = "AtPosInFixedBuf" => b.read_pos.pos <= b.write_pos
    /\ b.read_pos.kind = "AtPosInDynamicBuf" => b.read_pos.pos <= Len(b.dynamic_buf)

\* C34: in every reachable state write_pos <= fixed_buf.len(), the length
\* of fixed_buf is the one it was constructed with, a read position in the
\* fixed buffer is <= write_pos and a read position in the dynamic buffer
\* is <= dynamic_buf.len(); the assertions of consume_data and skip_bytes
\* never fail.
C34_BufferBounds ==
    /\ BufNoPanic
    /\ phase /= "buf_failed"
    /\ Len(iter[1].fixed_buf) = input.size
    /\ BufBounds(iter[1])

\* C34 witness: after a skip_bytes, a consume_data has returned a view
\* out of the dynamic buffer and has left the read position inside it,
\* with bytes in the fixed buffer behind it.
C34_Witness ==
    /\ phase = "buf_skipped"
    /\ ret.call = "consume_data"
    /\ ret.data /= None
    /\ ret.len > 0
    /\ iter[1].read_pos.kind = "AtPosInDynamicBuf"
    /\ iter[1].read_pos.pos > 0
    /\ iter[1].write_pos > 0

\* ---------------------------------------------------------------------
\* The jitdump reader over files whose sizes meet the edges of its
\* buffer and of its arithmetic: a header as long as the buffer, records
\* whose body ends inside the first buffer, at its end or beyond it, and a
\* last record that declares a total_size below the size of its header.
\* Both builds, with and without arithmetic overflow checks.
\* ---------------------------------------------------------------------

\* A record whose body fits the rest of the first buffer.
JitSmallRecord == [record_type |-> 1, total_size |-> 24, timestamp |-> 12]

\* A record that declares fewer bytes than its header has.
JitShortRecord == [record_type |-> 2, total_size |-> 8, timestamp |-> 15]

\* The records before the last: a body that ends inside the first buffer
\* and a body that ends beyond it.
JitSizeKinds ==
    { JitSmallRecord, [record_type |-> 0, total_size |-> 40, timestamp |-> 11] }

MaxSizeRecs == 2

\* Headers that end one record header before the end of the buffer and
\* earlier, over every sequence of records; the short record, first in the
\* file and after another record; and a header exactly as long as the
\* buffer.
JitSizeFiles ==
    { JitFile([magic |-> "DTiJ", version |-> 1, total_size |-> t], recs) :
        t \in {JitDumpHeader_SIZE, buffer_size - JitDumpRecordHeader_SIZE},
        recs \in SeqsUpTo(JitSizeKinds, MaxSizeRecs) }
    \cup { JitFile([magic |-> "DTiJ", version |-> 1, total_size |-> JitDumpHeader_SIZE],
                    recs \o <<JitShortRecord>>) :
             recs \in SeqsUpTo({JitSmallRecord}, 1) }
    \cup { JitFile([magic |-> "DTiJ", version |-> 1, total_size |-> buffer_size], <<>>) }

\* The build matters for the files that end in the short record.
JitSizeInputs ==
    UNION { { [jit |-> f, len |-> l, overflow_checks |-> c] :
                l \in JitLens(f) \cup {JitFileLen(f) + JitGrain},
                c \in IF f.recs /= <<>> /\ f.recs[Len(f.recs)] = JitShortRecord
                      THEN BOOLEAN ELSE {FALSE} } :
            f \in JitSizeFiles }

InitJitSizes ==
    /\ input \in JitSizeInputs
    /\ phase = "jit_start"
    /\ perf_file = None
    /\ iter = None
    /\ ret = [call |-> "none", err |-> None, value |-> None, waited |-> FALSE]
    /\ returned = <<>>
    /\ sorter = None
    /\ slog = None

SpecJitSizes == InitJitSizes /\ [][NextJit]_vars

\* ---- claims about skipping and about the edges of the sizes ----

\* Record k of the file declares at least the bytes of its header.
JitWellFormed(k) ==
    k <= Len(JitRecs) /\ JitRecs[k].total_size >= JitDumpRecordHeader_SIZE

\* What next_record answers in the reader r.
JitNextOf(r) ==
    JitDumpReader_next_record(r, input.jit, input.len, input.overflow_checks)

\* What the second of two consecutive next_record calls answers in r.
JitSecondOfTwo(r) == JitNextOf(JitNextOf(r).r)

\* The file holds the upcoming record and the one after it, both whole.
JitTwoWhole ==
    /\ JitWellFormed(JitUpcoming)
    /\ JitWellFormed(JitUpcoming + 1)
    /\ JitWhole(JitUpcoming + 1)

\* The bytes of the body of record k that the first read of the file, of
\* buffer_size bytes, has not covered.
JitBodyBeyondFirstRead(k) ==
    RecStart(input.jit, k + 1)
      - (IF RecStart(input.jit, k) + JitDumpRecordHeader_SIZE > buffer_size
         THEN RecStart(input.jit, k) + JitDumpRecordHeader_SIZE
         ELSE buffer_size)

\* A skip_next_record over two whole records skips the first, and the
\* next_record after it returns what the second of two next_record calls
\* returns in its place: the second record as the file holds it.
SkipLikeRead ==
    (JitStep("skip_next_record") /\ JitTwoWhole) =>
        /\ ret'.value = Some(TRUE)
        /\ JitNextOf(iter'[1]).err = None
        /\ JitNextOf(iter'[1]).value /= None
        /\ JitNextOf(iter'[1]).value = JitSecondOfTwo(iter[1]).value
        /\ JitAnswered(JitNextOf(iter'[1]).value[1]) = JitRecordAt(JitUpcoming + 1)

\* C33: on a seekable reader that holds the complete records,
\* skip_next_record followed by next_record returns the same record (type,
\* timestamp, start_offset, body bytes) as the second of two consecutive
\* next_record calls, whether the skipped body lies wholly in the buffers,
\* partly in them, or wholly beyond the buffered data.
C33_SkipLikeRead == [][SkipLikeRead]_vars

\* C33 witness: the first record, whose body lies wholly beyond the
\* buffered data, has been skipped, and next_record has then returned the
\* second record of the file.
C33_Witness ==
    /\ phase = "jit_open"
    /\ Len(returned) = 2
    /\ returned[1].op = "skip_next_record"
    /\ returned[2].op = "next_record"
    /\ ret.call = "next_record"
    /\ ret.value /= None
    /\ JitAnswered(ret.value[1]) = JitRecordAt(2)
    /\ input.jit.total_size + JitDumpRecordHeader_SIZE = buffer_size
    /\ JitBodyBeyondFirstRead(1) = JitRecs[1].total_size - JitDumpRecordHeader_SIZE

\* C35: new_with_buffer_size returns Ok or Err and never panics: whenever
\* the header parses, the assertion consumed_len < buf.len() of
\* new_with_partially_read_buffer holds.
C35_NewNeverPanics ==
    /\ ret.call = "new" => ret.err /= Some("panic")
    /\ phase = "jit_open" => iter[1].header.total_size < Len(iter[1].reader.fixed_buf)

\* The header of the upcoming record, as next_record_header reports it,
\* declares a total_size below the size of a record header.
JitShortUpcoming ==
    /\ phase = "jit_open"
    /\ JitPeek(iter[1]) /= None
    /\ JitPeek(iter[1])[1].total_size < JitDumpRecordHeader_SIZE

\* The body length next_record and skip_next_record compute for the
\* upcoming record is a length that has wrapped around.
JitWrappedBodyLen ==
    body_size(JitPeek(iter[1])[1].total_size, input.overflow_checks).len
        >= UsizeModulus \div 2

\* A call over a short header ends with an error or with nothing returned
\* or skipped, without panic and without a wrapped body length.
ShortRecordRefused ==
    ((JitStep("next_record") \/ JitStep("skip_next_record")) /\ JitShortUpcoming) =>
        /\ ret'.err /= Some("panic")
        /\ ~JitWrappedBodyLen
        /\ ret'.err = None => ret'.value \in {None, Some(FALSE)}

\* C36: for a record header that declares total_size < 16, the body size
\* does not underflow in next_record and skip_next_record: the call
\* returns an error or None, and never panics or asks for a wrapped-around
\* body length.
C36_NoUnderflow == [][ShortRecordRefused]_vars

\* ---------------------------------------------------------------------
\* ZstdDecompressor (src/decompression.rs).
\*
\* zstd_safe is not part of the repository; its streaming decoder is
\* modelled by the contract of ZSTD_decompressStream.  A chunk is a
\* sequence of blocks; the decoder consumes a block whole, one compressed
\* byte in the model, and decodes it into bytes that it holds until the
\* output buffer has taken them.  It returns when the output buffer is
\* full or when it has consumed all input and flushed all output.  What is
\* decoded and not yet flushed stays in the context (dctx.pending) and is
\* flushed first by the next call, whichever chunk that call is about.
\* With the output buffer full and nothing left to flush, a decoder may go
\* on to consume the next block or may return (input.eager).
\*
\* The content bytes of the n-th decompressed chunk are the numbers
\* 100 * n + 1, 100 * n + 2, ...; a chunk is given by the decoded sizes of
\* its blocks.  iter = the decompressor, ret = the last call.
\* ---------------------------------------------------------------------

MaxExpansion == 5   \* one block decodes to 0..MaxExpansion bytes
MaxBlocks == 2      \* a chunk has at most MaxBlocks blocks
MaxCarry == 2       \* a partial record of at most MaxCarry bytes is saved
MaxCalls == 3       \* decompress is called at most MaxCalls times

\* The output buffer starts at, and grows by, OUT_FACTOR times the length
\* of the compressed data.
OUT_FACTOR == 4

ZstdDecompressor_new == [dctx |-> None, partial_record_buffer |-> <<>>]

\* DCtx::create.
DCtx_create == [pending |-> <<>>]

RECURSIVE SumSeq(_)
SumSeq(s) == IF s = <<>> THEN 0 ELSE Head(s) + SumSeq(Tail(s))

\* The decoded bytes of the blocks of sizes `sizes` when the bytes before
\* them in the chunk end with the number `last`.
RECURSIVE BlocksFrom(_, _)
BlocksFrom(sizes, last) ==
    IF sizes = <<>> THEN <<>>
    ELSE <<[i \in 1..Head(sizes) |-> last + i]>>
         \o BlocksFrom(Tail(sizes), last + Head(sizes))

\* DCtx::decompress_stream: pending is what the context holds decoded,
\* blocks the input not yet consumed, space the room left in the output
\* buffer, out what this call has written to it so far.
RECURSIVE decompress_stream(_, _, _, _, _)
decompress_stream(pending, blocks, space, eager, out) ==
    IF pending /= <<>>
    THEN IF space = 0
         THEN [pending |-> pending, blocks |-> blocks, out |-> out]
         ELSE decompress_stream(
                  SubSeq(pending, Min(Len(pending), space) + 1, Len(pending)),
                  blocks, space - Min(Len(pending), space), eager,
                  out \o SubSeq(pending, 1, Min(Len(pending), space)))
    ELSE IF blocks = <<>> \/ (space = 0 /\ ~eager)
    THEN [pending |-> pending, blocks |-> blocks, out |-> out]
    ELSE decompress_stream(Head(blocks), Tail(blocks), space, eager, out)

\* The loop of decompress: decompressed_len is decompressed.len(),
\* total the bytes written so far (total_out of them), grow the step the
\* buffer is resized by.  The loop runs while input is left.
RECURSIVE decompress_loop(_, _, _, _, _, _)

\* One turn of the loop, after decompress_stream has answered with d.
decompress_turn(d, decompressed_len, total, grow, eager) ==
    decompress_loop(d.pending, d.blocks,
                    IF Len(d.out) = decompressed_len - Len(total)
                    THEN decompressed_len + grow ELSE decompressed_len,
                    total \o d.out, grow, eager)

decompress_loop(pending, blocks, decompressed_len, total, grow, eager) ==
    IF blocks = <<>>
    THEN [pending |-> pending, decompressed |-> total]
    ELSE decompress_turn(
             decompress_stream(pending, blocks, decompressed_len - Len(total),
                               eager, <<>>),
             decompressed_len, total, grow, eager)

\* The context decompress works with: created on first use, reused after.
get_or_insert_dctx(z) == IF z.dctx = None THEN DCtx_create ELSE z.dctx[1]

\* decompress after the loop has ended with l: the carried partial record
\* is taken and put in front.
decompress_finish(z, l) ==
    [z |-> [dctx |-> Some([pending |-> l.pending]), partial_record_buffer |-> <<>>],
     err |-> None,
     value |-> Some(z.partial_record_buffer \o l.decompressed)]

\* ZstdDecompressor::decompress of the chunk c, the n-th that is
\* decompressed.  A corrupt chunk makes decompress_stream fail.
ZstdDecompressor_decompress(z, c, n, eager) ==
    IF c.corrupt
    THEN [z |-> [z EXCEPT !.dctx = Some(get_or_insert_dctx(z))],
          err |-> Some("InvalidData"), value |-> None]
    ELSE decompress_finish(z,
             decompress_loop(get_or_insert_dctx(z).pending,
                             BlocksFrom(c.sizes, 100 * n),
                             Len(c.sizes) * OUT_FACTOR, <<>>,
                             Len(c.sizes) * OUT_FACTOR, eager))

\* ZstdDecompressor::save_partial_record.
ZstdDecompressor_save_partial_record(z, data) ==
    [z EXCEPT !.partial_record_buffer = data]

\* The chunks: every sequence of up to MaxBlocks block sizes, and a
\* corrupt chunk.
ZstdChunks ==
    { [sizes |-> s, corrupt |-> FALSE] : s \in SeqsUpTo(0..MaxExpansion, MaxBlocks) }
    \cup { [sizes |-> <<0>>, corrupt |-> TRUE] }

\* The partial records that are saved: tails of a decompressed chunk,
\* numbered apart from the content of the chunks.
ZstdCarries == { [i \in 1..k |-> 90 + i] : k \in 0..MaxCarry }

InitZstd ==
    /\ input \in [eager : BOOLEAN]
    /\ phase = "zstd"
    /\ perf_file = None
    /\ iter = Some(ZstdDecompressor_new)
    /\ ret = [call |-> "new", err |-> None, value |-> None, chunk |-> None,
              carried |-> <<>>, calls |-> 0]
    /\ returned = <<>>
    /\ sorter = None
    /\ slog = None

\* The outcome d of decompress(c); ret.carried is the partial record the
\* decompressor held when the call was made.
ZstdDecompressed(c, d) ==
    /\ ret' = [call |-> "decompress", err |-> d.err, value |-> d.value,
               chunk |-> Some(c), carried |-> iter[1].partial_record_buffer,
               calls |-> ret.calls + 1]
    /\ iter' = Some(d.z)
    /\ UNCHANGED <<input, phase, perf_file, returned, svars>>

ZstdDecompress ==
    /\ phase = "zstd"
    /\ ret.calls < MaxCalls
    /\ \E c \in ZstdChunks :
          ZstdDecompressed(c, ZstdDecompressor_decompress(iter[1], c, ret.calls + 1,
                                                          input.eager))

ZstdSavePartialRecord ==
    /\ phase = "zstd"
    /\ \E p \in ZstdCarries :
        /\ ret' = [call |-> "save_partial_record", err |-> None, value |-> None,
                   chunk |-> None, carried |-> iter[1].partial_record_buffer,
                   calls |-> ret.calls]
        /\ iter' = Some(ZstdDecompressor_save_partial_record(iter[1], p))
    /\ UNCHANGED <<input, phase, perf_file, returned, svars>>

NextZstd == ZstdDecompress \/ ZstdSavePartialRecord

SpecZstd == InitZstd /\ [][NextZstd]_vars

\* ---- claims about the decompressor ----

\* The decompressed content of the chunk of the last decompress call.
ZstdContent == [i \in 1..SumSeq(ret.chunk[1].sizes) |-> 100 * ret.calls + i]

\* The last call was a decompress that succeeded.
ZstdDecompressedOk == ret.call = "decompress" /\ ret.err = None

\* C38: decompress terminates and returns every byte of the chunk's
\* decompressed content, whatever the compression ratio, also when the
\* decompressed size exceeds four times the compressed length and all
\* input has already been consumed.
C38_AllBytesReturned ==
    ZstdDecompressedOk =>
        /\ Len(ret.value[1]) >= Len(ZstdContent)
        /\ SubSeq(ret.value[1], Len(ret.value[1]) - Len(ZstdContent) + 1,
                  Len(ret.value[1])) = ZstdContent

\* A step that is a call of the given method.
ZstdStep(call) == ret'.call = call

\* decompress returns the carried bytes followed by the content of the
\* chunk and empties the carry; a failed decompress keeps the carry;
\* save_partial_record replaces it.
CarryPrepended ==
    /\ (ZstdStep("decompress") /\ ret'.err = None) =>
          /\ ret'.value[1] = iter[1].partial_record_buffer
                             \o [i \in 1..SumSeq(ret'.chunk[1].sizes) |->
                                    100 * ret'.calls + i]
          /\ iter'[1].partial_record_buffer = <<>>
    /\ (ZstdStep("decompress") /\ ret'.err /= None) =>
          iter'[1].partial_record_buffer = iter[1].partial_record_buffer
    /\ ZstdStep("save_partial_record") =>
          iter'[1].partial_record_buffer \in ZstdCarries

\* C37: if save_partial_record(p) is the last save before decompress(c),
\* decompress(c) returns p followed by the decompressed content of c and
\* leaves the carry buffer empty; with no save since the previous
\* decompress the result is the content of c alone; the carry survives any
\* number of calls until the next successful decompress.
C37_Carry == [][CarryPrepended]_vars

====
